---------------------------- MODULE Spec2Model ----------------------------
(***************************************************************************)
(* A model of the lotobot backend: the rate-limited Stoloto gateway        *)
(* (integrations/stoloto/client.py), the cached section fetchers           *)
(* (integrations/stoloto/base.py), the semantic index                      *)
(* (integrations/ai/rag.py), the agent's refresh (integrations/ai/agent.py)*)
(* and the websocket session (presentation/routers/ai.py).                 *)
(*                                                                         *)
(* Every component has its own specification over the shared variables:    *)
(*   SpecGateway, SpecFetcher, SpecRefresh, SpecIndex, SpecSession.        *)
(* A component's actions leave the other components' variables unchanged.  *)
(***************************************************************************)
EXTENDS Integers, Sequences, FiniteSets, TLC

(***************************************************************************)
(* Bounds of the model.                                                    *)
(***************************************************************************)
\* the configured interval (StolotoClient.rate_limit), in clock ticks
RateLimit == 2
\* number of clock ticks the model follows after the start
MaxTicks == 6
\* number of distinct payloads the upstream can answer with
NPayloads == 2
\* number of distinct queries a search is called with
NQueries == 2
\* number of client messages a session reads in its main loop
MaxMessages == 2

VARIABLES
    \* ---- gateway (StolotoClient) ----
    now,                 \* time.time(), in ticks
    last_request_time,   \* StolotoClient.last_request_time
    lock_holder,         \* StolotoClient._lock: the caller that holds it, 0 when free
    lock_waiters,        \* StolotoClient._lock: FIFO of the callers suspended in acquire
    gw_client,           \* StolotoClient._client: "none", an "open" client, a "closed" one
    gw_close,            \* position of the close() call: "idle" or inside "aclose"
    gw_created,          \* how many httpx.AsyncClient objects were created and not closed
    gw_pc,               \* per caller: position in request()
    gw_wake,             \* per caller: the time its asyncio.sleep ends
    gw_stamps,           \* the values written to last_request_time, in order
    gw_result,           \* per caller: what request() returned or raised
    gw_sends,            \* per caller: calls of client.request made by its request()
    gw_upstream,         \* per caller: how the httpx call ended ("none" before it did)
    \* ---- cached section fetchers (BaseStolotoSection) ----
    cache,               \* the Redis store: cache key -> stored JSON (Absent when no entry)
    f_pc,                \* per caller: position in get()
    f_sec,               \* per caller: the section get() is called on
    f_force,             \* per caller: force_refresh
    f_read,              \* per caller: what the cache read found ("none" before any read)
    f_fresh,             \* per caller: fresh_data
    f_result,            \* per caller: what get() returned
    f_fetches,           \* per caller: calls of _fetch_from_api in this get()
    f_writes,            \* per caller: calls of redis set_json in this get()
    f_write,             \* per caller: the arguments of that set_json call, and whether it raised
    \* ---- semantic index (RAGSystem) and the agent's refresh ----
    data,                \* RAGSystem.data: the records
    embeddings,          \* RAGSystem.embeddings: None, or one row per encoded text
    rag_holder,          \* RAGSystem._lock: the refresh that holds it, "" when free
    rag_waiters,         \* RAGSystem._lock: FIFO of the refreshes suspended in acquire
    r_pc,                \* per refresh: position in _load_rag_data / load_from_stoloto_data
    r_bundle,            \* per refresh: main_data, tabs_data, list_data fetched so far
    r_fetched,           \* per refresh: the sections whose get() was called
    r_failed,            \* per refresh: the sections whose get() raised
    r_ingest,            \* per refresh: whether load_from_stoloto_data was called
    s_pc,                \* per search: position in search()
    s_q,                 \* per search: the query
    s_k,                 \* per search: top_k
    s_seen,              \* per search: the (data, embeddings) its result was computed from
    s_result,            \* per search: what search() returned or raised
    \* ---- websocket session (websocket_chat) ----
    ws_pc,               \* position in websocket_chat
    connected,           \* the client is still there: a send succeeds
    chat_context,        \* the local chat_context
    persisted,           \* the Redis value under chat_context_key (NoContext when no key)
    events,              \* the envelopes sent to the client, in order
    ws_n,                \* how many messages the main loop has read
    ws_hs,               \* what the handshake's receive() yielded
    ws_delete,           \* the outcomes of the deletes of chat_context_key, in order
    ws_in,               \* what the main loop's last receive() yielded
    ws_intent,           \* intent, of the router's own _detect_intent call
    ws_result,           \* result, of process_query
    ws_before,           \* chat_context when the current message was read
    ws_raised,           \* the stage whose exception the processing block caught
    \* ---- the agent's process_query (Agent) ----
    ag_pc,               \* position in process_query
    ag_raw,              \* the classifier's reply, as _detect_intent received it
    ag_intent,           \* intent
    ag_kw,               \* keywords, the query of rag.search
    ag_hits,             \* rag_results
    ag_calls,            \* the chat completions requested, in order
    ag_reply,            \* the content of the last completion (NoText before it)
    ag_result,           \* what process_query returned
    ag_force,            \* force_refresh_rag
    ag_was_empty,        \* whether rag.data was empty when process_query was called
    ag_refreshes,        \* calls of _load_rag_data in this process_query
    ag_searches,         \* the rag.search calls: top_k, and the completions made before
    \* ---- the chat service and a caller of it (ChatService) ----
    cs_pc,               \* position in initialize_chat_context / process_user_message
    cs_context,          \* the list the caller holds and passes as chat_context
    cs_local,            \* what process_user_message's own name chat_context is bound to
    cs_persisted,        \* the value under chat_context_key
    cs_events,           \* the codes passed to send_message, in order
    cs_n,                \* calls of process_user_message so far
    cs_result            \* per call: what process_query returned

gwVars == <<now, last_request_time, lock_holder, lock_waiters, gw_client, gw_close,
            gw_created, gw_pc, gw_wake, gw_stamps, gw_result, gw_sends, gw_upstream>>

fVars == <<cache, f_pc, f_sec, f_force, f_read, f_fresh, f_result, f_fetches, f_writes,
          f_write>>

ixVars == <<data, embeddings, rag_holder, rag_waiters, r_pc, r_bundle, r_fetched,
            r_failed, r_ingest, s_pc, s_q, s_k, s_seen, s_result>>

wsVars == <<ws_pc, connected, chat_context, persisted, events, ws_n, ws_hs, ws_delete, ws_in,
            ws_intent, ws_result, ws_before, ws_raised>>

agVars == <<ag_pc, ag_raw, ag_intent, ag_kw, ag_hits, ag_calls, ag_reply, ag_result,
           ag_force, ag_was_empty, ag_refreshes, ag_searches>>

csVars == <<cs_pc, cs_context, cs_local, cs_persisted, cs_events, cs_n, cs_result>>

vars == <<gwVars, fVars, ixVars, wsVars, agVars, csVars>>

\* what the actions of one component leave alone
gwOthers == <<fVars, ixVars, wsVars, agVars, csVars>>
fOthers == <<gwVars, ixVars, wsVars, agVars, csVars>>
ixOthers == <<gwVars, fVars, wsVars, agVars, csVars>>
\* the session's process_query writes the index's records and vectors
wsOthers == <<gwVars, fVars, rag_holder, rag_waiters, r_pc, r_bundle, r_fetched,
              r_failed, r_ingest, s_pc, s_q, s_k, s_seen, s_result, agVars, csVars>>
\* so does process_query itself
agOthers == <<gwVars, fVars, rag_holder, rag_waiters, r_pc, r_bundle, r_fetched,
              r_failed, r_ingest, s_pc, s_q, s_k, s_seen, s_result, wsVars, csVars>>
\* and the chat service's
csOthers == <<gwVars, fVars, rag_holder, rag_waiters, r_pc, r_bundle, r_fetched,
              r_failed, r_ingest, s_pc, s_q, s_k, s_seen, s_result, wsVars, agVars>>

(***************************************************************************)
(* Rate-limited gateway: StolotoClient                                     *)
(***************************************************************************)
\* the concurrent callers of StolotoClient.request: three, so that one can
\* wait for the lock while another sleeps in it
Callers == {1, 2, 3}
NoCaller == 0

\* time.time() when the process starts serving: far beyond rate_limit, so
\* that "now - 0.0 < rate_limit" is false for the first request.
StartTime == RateLimit
MaxTime == StartTime + MaxTicks

NoResult == [kind |-> "none", has_url |-> FALSE, status |-> 0]

\* client.py:49-53: the time the caller has to sleep
NoWaitTime(current_time, last) == 0
WaitTime(current_time, last) ==
    LET time_since_last_request == current_time - last
    IN  IF time_since_last_request < RateLimit
        THEN RateLimit - time_since_last_request
        ELSE 0

\* asyncio.Lock.release: the lock goes to the first waiter, if any
LockDropped == NoCaller
LockAfterRelease == IF lock_waiters = <<>> THEN NoCaller ELSE Head(lock_waiters)
WaitersAfterRelease == IF lock_waiters = <<>> THEN <<>> ELSE Tail(lock_waiters)

\* client.py:57 and the end of "async with": stamp, release, go on to send
GwStamp(c) ==
    /\ last_request_time' = now
    /\ gw_stamps' = Append(gw_stamps, now)
    /\ lock_holder' = LockAfterRelease
    /\ lock_waiters' = WaitersAfterRelease
    /\ gw_pc' = [gw_pc EXCEPT ![c] = "get_client"]
    /\ UNCHANGED gw_wake

\* client.py:49-57 run by the caller that has just got the lock: no
\* suspension point lies between the acquire and the sleep (or the stamp)
GwInsideLock(c) ==
    IF WaitTime(now, last_request_time) > 0
    THEN /\ gw_wake' = [gw_wake EXCEPT ![c] = now + WaitTime(now, last_request_time)]
         /\ gw_pc' = [gw_pc EXCEPT ![c] = "sleeping"]
         /\ lock_holder' = c
         /\ UNCHANGED <<last_request_time, gw_stamps, lock_waiters>>
    ELSE GwStamp(c)

\* request() is called (client.py:76, 48): the lock is free, or the caller queues
GwRequest(c) ==
    /\ gw_pc[c] = "idle"
    /\ IF lock_holder = NoCaller
       THEN GwInsideLock(c)
       ELSE /\ lock_waiters' = Append(lock_waiters, c)
            /\ gw_pc' = [gw_pc EXCEPT ![c] = "wait_lock"]
            /\ UNCHANGED <<last_request_time, gw_stamps, lock_holder, gw_wake>>
    /\ UNCHANGED <<now, gw_client, gw_close, gw_created, gw_result, gw_sends, gw_upstream>>
    /\ UNCHANGED gwOthers

\* a queued caller resumes holding the lock (client.py:48)
GwLockGranted(c) ==
    /\ gw_pc[c] = "wait_lock"
    /\ lock_holder = c
    /\ GwInsideLock(c)
    /\ UNCHANGED <<now, gw_client, gw_close, gw_created, gw_result, gw_sends, gw_upstream>>
    /\ UNCHANGED gwOthers

\* asyncio.sleep(wait_time) returns, not before its time (client.py:55-57)
GwWake(c) ==
    /\ gw_pc[c] = "sleeping"
    /\ now >= gw_wake[c]
    /\ GwStamp(c)
    /\ UNCHANGED <<now, gw_client, gw_close, gw_created, gw_result, gw_sends, gw_upstream>>
    /\ UNCHANGED gwOthers

\* what request() ends with when client.request is called on a client that
\* close() has closed: httpx raises RuntimeError, which neither except clause
\* of client.py:85-90 catches
ClosedClientError == [kind |-> "RuntimeError", has_url |-> FALSE, status |-> 0]

\* _get_client (client.py:37-44), then client.request is called
\* (client.py:82); a closed client that is still self._client raises at once
GwGetClient(c) ==
    /\ gw_pc[c] = "get_client"
    /\ IF gw_client = "closed"
       THEN /\ gw_result' = [gw_result EXCEPT ![c] = ClosedClientError]
            /\ gw_upstream' = [gw_upstream EXCEPT ![c] = "closed_client"]
            /\ gw_pc' = [gw_pc EXCEPT ![c] = "done"]
            /\ UNCHANGED <<gw_client, gw_created>>
       ELSE /\ gw_client' = "open"
            /\ gw_created' = IF gw_client = "none" THEN gw_created + 1 ELSE gw_created
            /\ gw_pc' = [gw_pc EXCEPT ![c] = "sending"]
            /\ UNCHANGED <<gw_result, gw_upstream>>
    /\ gw_sends' = [gw_sends EXCEPT ![c] = @ + 1]
    /\ UNCHANGED <<now, last_request_time, lock_holder, lock_waiters, gw_wake,
                   gw_stamps, gw_close>>
    /\ UNCHANGED gwOthers

\* client.py:82-90: the response, an HTTP status error, a transport error, or
\* an exception of another class, which request() lets through as it is
GwOutcome(outcome) ==
    CASE outcome = "ok" -> [kind |-> "response", has_url |-> FALSE, status |-> 200]
      [] outcome = "status_error" ->
            \* HTTPException(400, f'... {url}')
            [kind |-> "HTTPException", has_url |-> TRUE, status |-> 400]
      [] outcome = "transport_error" ->
            \* HTTPException(400, '... {url}'): not an f-string
            [kind |-> "HTTPException", has_url |-> FALSE, status |-> 400]
      [] OTHER ->
            \* no except clause matches
            [kind |-> "Exception", has_url |-> FALSE, status |-> 0]

\* request() ends with the first outcome of client.request: "return response"
\* or one of the two raises (client.py:84, 87, 90); nothing loops back
RetryOnError(outcome) == IF outcome = "ok" THEN "done" ELSE "get_client"
AfterResponse(outcome) == "done"

Outcomes == {"ok", "status_error", "transport_error", "other_error"}

GwRespond(c, outcome) ==
    /\ gw_pc[c] = "sending"
    /\ gw_result' = [gw_result EXCEPT ![c] = GwOutcome(outcome)]
    /\ gw_upstream' = [gw_upstream EXCEPT ![c] = outcome]
    /\ gw_pc' = [gw_pc EXCEPT ![c] = AfterResponse(outcome)]
    /\ UNCHANGED <<now, last_request_time, lock_holder, lock_waiters, gw_client, gw_close,
                   gw_created, gw_wake, gw_stamps, gw_sends>>
    /\ UNCHANGED gwOthers

\* "if self._client:" (client.py:98): aclose() is called on a client only
CloseUnguarded(client, created) == created - 1
CreatedAfterClose(client, created) == IF client THEN created - 1 ELSE created

\* close() is called (client.py:96-99), whatever the callers of request() are
\* doing: without a client it returns at once; with an open one it calls
\* aclose(), which marks the client closed and suspends, self._client still
\* naming it; on a client already closed aclose() returns at once and the
\* client is forgotten (client.py:100).
\* The shutdown handler is its caller (stoloto.py:41-49): one close() at a time
GwCloseStart ==
    /\ gw_close = "idle"
    /\ gw_created' = CreatedAfterClose(gw_client = "open", gw_created)
    /\ CASE gw_client = "none" -> UNCHANGED <<gw_client, gw_close>>
         [] gw_client = "closed" -> gw_client' = "none" /\ UNCHANGED gw_close
         [] OTHER -> gw_client' = "closed" /\ gw_close' = "aclose"
    /\ UNCHANGED <<now, last_request_time, lock_holder, lock_waiters, gw_pc,
                   gw_wake, gw_stamps, gw_result, gw_sends, gw_upstream>>
    /\ UNCHANGED gwOthers

\* aclose() returns and close() forgets the client (client.py:100)
GwCloseEnd ==
    /\ gw_close = "aclose"
    /\ gw_client' = "none"
    /\ gw_close' = "idle"
    /\ UNCHANGED <<now, last_request_time, lock_holder, lock_waiters, gw_pc, gw_created,
                   gw_wake, gw_stamps, gw_result, gw_sends, gw_upstream>>
    /\ UNCHANGED gwOthers

\* aclose() raises: close() raises with it, client.py:100 is not reached and
\* self._client goes on naming the closed client
GwCloseRaise ==
    /\ gw_close = "aclose"
    /\ gw_close' = "idle"
    /\ UNCHANGED <<now, last_request_time, lock_holder, lock_waiters, gw_client, gw_pc,
                   gw_created, gw_wake, gw_stamps, gw_result, gw_sends, gw_upstream>>
    /\ UNCHANGED gwOthers

\* the clock; it runs past MaxTime only while a sleep is still pending
Tick ==
    /\ \/ now < MaxTime
       \/ \E c \in Callers : gw_pc[c] = "sleeping" /\ gw_wake[c] > now
    /\ now' = now + 1
    /\ UNCHANGED <<last_request_time, lock_holder, lock_waiters, gw_client, gw_close,
                   gw_created, gw_pc, gw_wake, gw_stamps, gw_result, gw_sends,
                   gw_upstream>>
    /\ UNCHANGED gwOthers

GwInit ==
    /\ now = StartTime
    /\ last_request_time = 0
    /\ lock_holder = NoCaller
    /\ lock_waiters = <<>>
    /\ gw_client = "none"
    /\ gw_close = "idle"
    /\ gw_created = 0
    /\ gw_pc = [c \in Callers |-> "idle"]
    /\ gw_wake = [c \in Callers |-> 0]
    /\ gw_stamps = <<>>
    /\ gw_result = [c \in Callers |-> NoResult]
    /\ gw_sends = [c \in Callers |-> 0]
    /\ gw_upstream = [c \in Callers |-> "none"]

GwStep ==
    \/ \E c \in Callers : GwRequest(c)
    \/ \E c \in Callers : GwLockGranted(c)
    \/ \E c \in Callers : GwWake(c)
    \/ \E c \in Callers : GwGetClient(c)
    \/ \E c \in Callers, o \in Outcomes : GwRespond(c, o)
    \/ GwCloseStart
    \/ GwCloseEnd
    \/ GwCloseRaise
    \/ Tick


(***************************************************************************)
(* Cached section fetcher: BaseStolotoSection                              *)
(***************************************************************************)
\* two concurrent callers of get()
Fetchers == {"f1", "f2"}
Payloads == 1..NPayloads
\* the sections the agent refreshes from, and one whose key takes arguments
Sections == {"main", "tabs", "list"}

\* cache_key of each section (main/client.py:8, tabs/client.py:8, list/client.py:24)
CacheKey(sec) ==
    CASE sec = "main" -> "stoloto:main:categories"
      [] sec = "tabs" -> "stoloto:tabs:active"
      [] OTHER -> "stoloto:list:packets"
CacheKeys == {CacheKey(sec) : sec \in Sections}

\* a response model object, and the dict model_dump() makes of it
NoneModel == [model |-> "None", v |-> 0]
Absent == [dict_of |-> "None", v |-> 0]
Model(sec, v) == [model |-> sec, v |-> v]

\* data.model_dump() (base.py:71)
ModelDump(m) == [dict_of |-> m.model, v |-> m.v]

\* "if cached_data:" on the parsed JSON (base.py:54): a dict with keys is true
DictTruthy(d) == d # Absent

\* self.response_model(**cached_data) (base.py:56); a dict of another model
\* fails validation, which the except of base.py:58 turns into None
Validate(sec, d) == IF d.dict_of = sec THEN Model(sec, d.v) ELSE NoneModel

\* _get_from_cache (base.py:44-60); ok = FALSE: redis raised
GetFromCache(sec, ok) ==
    IF ok /\ DictTruthy(cache[CacheKey(sec)])
    THEN Validate(sec, cache[CacheKey(sec)])
    ELSE NoneModel

\* "if cached_data: return cached_data" (base.py:100-101)
NeverReturnsCached(cached_data) == FALSE
ReturnsCached(cached_data) == cached_data # NoneModel

NoRead == [done |-> FALSE, ok |-> FALSE, entry |-> Absent]

\* cache_ttl of the section classes (main/client.py:9, tabs/client.py:9, list/client.py:25)
CacheTTL(sec) == 600

\* no set_json call yet in this get()
NoWrite == [key |-> "", value |-> Absent, expire |-> 0, ok |-> FALSE]

\* "if not force_refresh:" (base.py:98): a forced get() skips the cache read
AlwaysRead(force) == "read"
FirstStep(force) == IF force THEN "fetch" ELSE "read"

\* _get_from_cache returned None (base.py:57-60): a miss and a redis error
\* both fall through to the fetch of base.py:104
MissRaises(ok) == IF ok THEN "fetch" ELSE "raised"
AfterMiss(ok) == "fetch"

\* "await self._save_to_cache(fresh_data)" follows the fetch (base.py:105)
SkipSave == "done"
AfterFetch == "save"

\* "except Exception" of _save_to_cache (base.py:74-75): get() goes on to
\* "return fresh_data" whether or not set_json raised
SaveRaises(ok) == IF ok THEN "done" ELSE "raised"
AfterSave(ok) == "done"

\* get(force_refresh) is called (base.py:88-98)
FGet(f, sec, force) ==
    /\ f_pc[f] = "idle"
    /\ f_sec' = [f_sec EXCEPT ![f] = sec]
    /\ f_force' = [f_force EXCEPT ![f] = force]
    /\ f_pc' = [f_pc EXCEPT ![f] = FirstStep(force)]
    /\ UNCHANGED <<cache, f_read, f_fresh, f_result, f_fetches, f_writes, f_write>>
    /\ UNCHANGED fOthers

\* the cache read returns (base.py:99-101)
FCacheRead(f, ok) ==
    /\ f_pc[f] = "read"
    /\ f_read' = [f_read EXCEPT ![f] =
                    [done |-> TRUE, ok |-> ok, entry |-> cache[CacheKey(f_sec[f])]]]
    /\ IF ReturnsCached(GetFromCache(f_sec[f], ok))
       THEN /\ f_result' = [f_result EXCEPT ![f] = GetFromCache(f_sec[f], ok)]
            /\ f_pc' = [f_pc EXCEPT ![f] = "done"]
       ELSE /\ f_pc' = [f_pc EXCEPT ![f] = AfterMiss(ok)]
            /\ UNCHANGED f_result
    /\ UNCHANGED <<cache, f_sec, f_force, f_fresh, f_fetches, f_writes, f_write>>
    /\ UNCHANGED fOthers

\* _fetch_from_api returns a model (base.py:104)
FFetchOk(f, v) ==
    /\ f_pc[f] = "fetch"
    /\ f_fetches' = [f_fetches EXCEPT ![f] = @ + 1]
    /\ f_fresh' = [f_fresh EXCEPT ![f] = Model(f_sec[f], v)]
    /\ f_pc' = [f_pc EXCEPT ![f] = AfterFetch]
    /\ UNCHANGED <<cache, f_sec, f_force, f_read, f_result, f_writes, f_write>>
    /\ UNCHANGED fOthers

\* get() has no try around "await self._fetch_from_api()" (base.py:104): the
\* exception leaves get() before _save_to_cache
FetchErrorSaved == "save"
AfterFetchError == "raised"

\* _fetch_from_api raises (the gateway's HTTPException, a validation error)
FFetchRaise(f) ==
    /\ f_pc[f] = "fetch"
    /\ f_fetches' = [f_fetches EXCEPT ![f] = @ + 1]
    /\ f_pc' = [f_pc EXCEPT ![f] = AfterFetchError]
    /\ UNCHANGED <<cache, f_sec, f_force, f_read, f_fresh, f_result, f_writes, f_write>>
    /\ UNCHANGED fOthers

\* _save_to_cache, then return fresh_data (base.py:62-75, 105-106)
FSave(f, ok) ==
    /\ f_pc[f] = "save"
    /\ f_writes' = [f_writes EXCEPT ![f] = @ + 1]
    /\ f_write' = [f_write EXCEPT ![f] =
                     [key |-> CacheKey(f_sec[f]), value |-> ModelDump(f_fresh[f]),
                      expire |-> CacheTTL(f_sec[f]), ok |-> ok]]
    /\ cache' = IF ok THEN [cache EXCEPT ![CacheKey(f_sec[f])] = ModelDump(f_fresh[f])]
                ELSE cache
    /\ f_result' = [f_result EXCEPT ![f] = f_fresh[f]]
    /\ f_pc' = [f_pc EXCEPT ![f] = AfterSave(ok)]
    /\ UNCHANGED <<f_sec, f_force, f_read, f_fresh, f_fetches>>
    /\ UNCHANGED fOthers

\* the caller takes the result (or the exception); the next get() starts afresh
FReturn(f) ==
    /\ f_pc[f] \in {"done", "raised"}
    /\ f_pc' = [f_pc EXCEPT ![f] = "idle"]
    /\ f_read' = [f_read EXCEPT ![f] = NoRead]
    /\ f_fresh' = [f_fresh EXCEPT ![f] = NoneModel]
    /\ f_result' = [f_result EXCEPT ![f] = NoneModel]
    /\ f_fetches' = [f_fetches EXCEPT ![f] = 0]
    /\ f_writes' = [f_writes EXCEPT ![f] = 0]
    /\ f_write' = [f_write EXCEPT ![f] = NoWrite]
    /\ f_sec' = [f_sec EXCEPT ![f] = "main"]
    /\ f_force' = [f_force EXCEPT ![f] = FALSE]
    /\ UNCHANGED cache
    /\ UNCHANGED fOthers

\* the store drops an entry whose TTL has run out
FExpire(k) ==
    /\ cache[k] # Absent
    /\ cache' = [cache EXCEPT ![k] = Absent]
    /\ UNCHANGED <<f_pc, f_sec, f_force, f_read, f_fresh, f_result, f_fetches, f_writes, f_write>>
    /\ UNCHANGED fOthers

FInit ==
    /\ cache = [k \in CacheKeys |-> Absent]
    /\ f_pc = [f \in Fetchers |-> "idle"]
    /\ f_sec = [f \in Fetchers |-> "main"]
    /\ f_force = [f \in Fetchers |-> FALSE]
    /\ f_read = [f \in Fetchers |-> NoRead]
    /\ f_fresh = [f \in Fetchers |-> NoneModel]
    /\ f_result = [f \in Fetchers |-> NoneModel]
    /\ f_fetches = [f \in Fetchers |-> 0]
    /\ f_writes = [f \in Fetchers |-> 0]
    /\ f_write = [f \in Fetchers |-> NoWrite]

FStep ==
    \/ \E f \in Fetchers, sec \in Sections, force \in BOOLEAN : FGet(f, sec, force)
    \/ \E f \in Fetchers, ok \in BOOLEAN : FCacheRead(f, ok)
    \/ \E f \in Fetchers, v \in Payloads : FFetchOk(f, v)
    \/ \E f \in Fetchers : FFetchRaise(f)
    \/ \E f \in Fetchers, ok \in BOOLEAN : FSave(f, ok)
    \/ \E f \in Fetchers : FReturn(f)
    \/ \E k \in CacheKeys : FExpire(k)

(***************************************************************************)
(* Semantic index: RAGSystem, and Agent._load_rag_data                     *)
(***************************************************************************)
Refreshes == {"r1", "r2"}
Searches == {"s1"}
Queries == 1..NQueries
NoRefresh == ""
\* top_k of the agent's search (agent.py:230)
TopK == 3
Ks == {1, TopK}

\* what a section's get() gave the refresh: None, or a model whose dump
\* yields n records
NoneSection == [present |-> FALSE, n |-> 0]
SectionData(n) == [present |-> TRUE, n |-> n]
EmptyBundle == [main |-> NoneSection, tabs |-> NoneSection, list |-> NoneSection]
\* how many records a section's payload yields
ItemCounts == {0, 1}
Bundles == {[main |-> SectionData(m), tabs |-> SectionData(t), list |-> SectionData(l)] :
                m \in ItemCounts, t \in ItemCounts, l \in ItemCounts}

\* the bundles a session's refresh installs: no record, or one
RefreshBundles == {b \in Bundles : b.tabs.n = 0 /\ b.list.n = 0}

\* the order _load_rag_data fetches in (agent.py:86-88)
FetchOrder == <<"main", "tabs", "list">>
NextFetch(r) == FetchOrder[Cardinality(r_fetched[r]) + 1]

\* the records one source yields (rag.py:61-88, 91-110, 113-132)
Records(type, section) ==
    IF section.present THEN [i \in 1..section.n |-> [type |-> type, n |-> i]] ELSE <<>>

\* load_from_stoloto_data walks main, then list, then tabs (rag.py:59-132)
Extract(bundle) ==
    Records("lottery", bundle.main) \o Records("packet", bundle.list)
        \o Records("active_draw", bundle.tabs)

\* _dict_to_string (rag.py:29-41) and model.encode: the row of a record
ToText(record) == [text_of |-> record]
Encode(texts) == [i \in 1..Len(texts) |-> [vec_of |-> texts[i]]]
EncodeQuery(q) == [vec_of |-> [query |-> q]]

NoEmbeddings == [present |-> FALSE, rows |-> <<>>]

\* cosine_similarity of the query's vector and a row, as a rank 0..1: rows
\* of different records can have the same similarity
TypeRank(type) == CASE type = "lottery" -> 0 [] type = "packet" -> 1 [] OTHER -> 2
Similarity(qvec, row) ==
    (qvec.vec_of.query + TypeRank(row.vec_of.text_of.type) + row.vec_of.text_of.n) % 2

\* cosine_similarity(query_embedding, self.embeddings)[0] (rag.py:223)
Similarities(q, rows) == [i \in 1..Len(rows) |-> Similarity(EncodeQuery(q), rows[i])]

\* np.argsort(similarities): ascending; arrays this small are insertion-sorted,
\* which leaves equal scores in index order
RECURSIVE Argsort(_, _)
Argsort(sc, left) ==
    IF left = {} THEN <<>>
    ELSE LET i == CHOOSE i \in left :
                    \A j \in left : sc[i] < sc[j] \/ (sc[i] = sc[j] /\ i <= j)
         IN  <<i>> \o Argsort(sc, left \ {i})

NoReverse(seq) == seq
Reverse(seq) == [i \in 1..Len(seq) |-> seq[Len(seq) + 1 - i]]
Take(seq, k) == SubSeq(seq, 1, IF k < Len(seq) THEN k ELSE Len(seq))

\* np.argsort(similarities)[::-1][:top_k] (rag.py:224)
TopIndices(sc, k) == Take(Reverse(Argsort(sc, DOMAIN sc)), k)

NoSearchResult == [kind |-> "none", items |-> <<>>]
NoSeen == [records |-> <<>>, vectors |-> NoEmbeddings]

\* rag.py:222-243 on the data and embeddings the object holds at that moment.
\* With self.embeddings None, cosine_similarity(query_embedding, None) compares
\* the query's one row with itself: one similarity, 1.0, and top index 0
SearchResult(q, k, records, vectors) ==
    IF ~vectors.present
    THEN IF Len(records) = 0
         THEN [kind |-> "raised", items |-> <<>>]     \* IndexError of self.data[0]
         ELSE [kind |-> "list", items |-> <<[data |-> records[1], score |-> 1]>>]
    ELSE LET sc == Similarities(q, vectors.rows)
             top == TopIndices(sc, k)
         IN  IF \E j \in 1..Len(top) : top[j] > Len(records)
             THEN [kind |-> "raised", items |-> <<>>]  \* IndexError of self.data[idx]
             ELSE [kind |-> "list",
                   items |-> [j \in 1..Len(top) |->
                                [data |-> records[top[j]], score |-> sc[top[j]]]]]

\* asyncio.Lock.release of RAGSystem._lock
RagAfterRelease == IF rag_waiters = <<>> THEN NoRefresh ELSE Head(rag_waiters)
RagWaitersAfterRelease == IF rag_waiters = <<>> THEN <<>> ELSE Tail(rag_waiters)

\* texts: one flattened text per record (rag.py:84-85, 106-107, 128-129)
Texts(bundle) == [i \in 1..Len(Extract(bundle)) |-> ToText(Extract(bundle)[i])]

\* what a completed ingest of the bundle installs: its records and, when
\* there are any, one vector per record
Installed(bundle) ==
    [records |-> Extract(bundle),
     vectors |-> IF Texts(bundle) = <<>> THEN NoEmbeddings
                 ELSE [present |-> TRUE, rows |-> Encode(Texts(bundle))]]

\* what load_from_stoloto_data has done when it first suspends, for a caller
\* that found the lock free (agent.py:86-112, rag.py:51-162): nothing when
\* one of the three get() calls raised; otherwise self.data is the new
\* records, and self.embeddings is None when there is nothing to encode and
\* still the old value while the encode runs
FetchedIndex(fetched, bundle) ==
    /\ data' = IF fetched THEN Extract(bundle) ELSE data
    /\ embeddings' = IF fetched /\ Texts(bundle) = <<>> THEN NoEmbeddings ELSE embeddings

\* "if texts:" (rag.py:146): the encode is awaited
NeedsEncode(fetched, bundle) == fetched /\ Texts(bundle) # <<>>

\* the rows model.encode gives for the records the index holds
EncodeRecords(records) == Encode([i \in 1..Len(records) |-> ToText(records[i])])

\* rag.py:52-162 up to the first suspension point, run holding the lock:
\* self.data is replaced at once; self.embeddings only when there is nothing
\* to encode
RInsideLock(r, bundle) ==
    /\ data' = Extract(bundle)
    /\ IF Texts(bundle) # <<>>
       THEN /\ r_pc' = [r_pc EXCEPT ![r] = "encoding"]
            /\ rag_holder' = r
            /\ UNCHANGED <<embeddings, rag_waiters>>
       ELSE /\ embeddings' = NoEmbeddings
            /\ r_pc' = [r_pc EXCEPT ![r] = "done"]
            /\ rag_holder' = RagAfterRelease
            /\ rag_waiters' = RagWaitersAfterRelease

\* load_from_stoloto_data(bundle) is called (agent.py:105-112, rag.py:51): no
\* suspension point lies between the call and the encode when the lock is free
RLoad(r, bundle) ==
    /\ r_ingest' = [r_ingest EXCEPT ![r] = TRUE]
    /\ r_bundle' = [r_bundle EXCEPT ![r] = bundle]
    /\ IF rag_holder = NoRefresh
       THEN RInsideLock(r, bundle)
       ELSE /\ rag_waiters' = Append(rag_waiters, r)
            /\ r_pc' = [r_pc EXCEPT ![r] = "wait_lock"]
            /\ UNCHANGED <<data, embeddings, rag_holder>>

\* _load_rag_data is called (agent.py:79-86)
RStart(r) ==
    /\ r_pc[r] = "idle"
    /\ r_pc' = [r_pc EXCEPT ![r] = "fetch"]
    /\ UNCHANGED <<data, embeddings, rag_holder, rag_waiters, r_bundle, r_fetched,
                   r_failed, r_ingest, s_pc, s_q, s_k, s_seen, s_result>>
    /\ UNCHANGED ixOthers

\* the next section's get() returns its model (agent.py:86-88); after the
\* last one the bundle is built and loaded (agent.py:93-112)
RFetchOk(r, n) ==
    /\ r_pc[r] = "fetch"
    /\ r_fetched' = [r_fetched EXCEPT ![r] = @ \cup {NextFetch(r)}]
    /\ IF Cardinality(r_fetched[r]) + 1 = Len(FetchOrder)
       THEN RLoad(r, [r_bundle[r] EXCEPT ![NextFetch(r)] = SectionData(n)])
       ELSE /\ r_bundle' = [r_bundle EXCEPT ![r][NextFetch(r)] = SectionData(n)]
            /\ UNCHANGED <<data, embeddings, rag_holder, rag_waiters, r_pc, r_ingest>>
    /\ UNCHANGED <<r_failed, s_pc, s_q, s_k, s_seen, s_result>>
    /\ UNCHANGED ixOthers

\* "except Exception" of _load_rag_data (agent.py:118-119) logs and returns
SectionErrorRaised == "raised"
AfterSectionError == "done"

\* the next section's get() raises: the except of agent.py:118 ends the refresh
RFetchRaise(r) ==
    /\ r_pc[r] = "fetch"
    /\ r_fetched' = [r_fetched EXCEPT ![r] = @ \cup {NextFetch(r)}]
    /\ r_failed' = [r_failed EXCEPT ![r] = @ \cup {NextFetch(r)}]
    /\ r_pc' = [r_pc EXCEPT ![r] = AfterSectionError]
    /\ UNCHANGED <<data, embeddings, rag_holder, rag_waiters, r_bundle, r_ingest, s_pc, s_q, s_k, s_seen, s_result>>
    /\ UNCHANGED ixOthers

\* the index's caller hands it a bundle
Ingest(r, bundle) ==
    /\ r_pc[r] = "idle"
    /\ RLoad(r, bundle)
    /\ r_fetched' = [r_fetched EXCEPT ![r] = {"main", "tabs", "list"}]
    /\ UNCHANGED <<r_failed, s_pc, s_q, s_k, s_seen, s_result>>
    /\ UNCHANGED ixOthers

\* a queued load resumes holding the lock (rag.py:51)
RLockGranted(r) ==
    /\ r_pc[r] = "wait_lock"
    /\ rag_holder = r
    /\ RInsideLock(r, r_bundle[r])
    /\ UNCHANGED <<r_bundle, r_fetched, r_failed, r_ingest, s_pc, s_q, s_k, s_seen, s_result>>
    /\ UNCHANGED ixOthers

\* model.encode returns in the worker thread (rag.py:150-153)
REncoded(r) ==
    /\ r_pc[r] = "encoding"
    /\ embeddings' = [present |-> TRUE, rows |-> Encode(Texts(r_bundle[r]))]
    /\ rag_holder' = RagAfterRelease
    /\ rag_waiters' = RagWaitersAfterRelease
    /\ r_pc' = [r_pc EXCEPT ![r] = "done"]
    /\ UNCHANGED <<data, r_bundle, r_fetched, r_failed, r_ingest,
                   s_pc, s_q, s_k, s_seen, s_result>>
    /\ UNCHANGED ixOthers

\* model.encode raises: the lock is released, agent.py:118 swallows the error
REncodeRaise(r) ==
    /\ r_pc[r] = "encoding"
    /\ rag_holder' = RagAfterRelease
    /\ rag_waiters' = RagWaitersAfterRelease
    /\ r_pc' = [r_pc EXCEPT ![r] = "done"]
    /\ UNCHANGED <<data, embeddings, r_bundle, r_fetched, r_failed, r_ingest,
                   s_pc, s_q, s_k, s_seen, s_result>>
    /\ UNCHANGED ixOthers

\* _load_rag_data returns (agent.py:113-119)
RReturn(r) ==
    /\ r_pc[r] = "done"
    /\ r_pc' = [r_pc EXCEPT ![r] = "idle"]
    /\ r_bundle' = [r_bundle EXCEPT ![r] = EmptyBundle]
    /\ r_fetched' = [r_fetched EXCEPT ![r] = {}]
    /\ r_failed' = [r_failed EXCEPT ![r] = {}]
    /\ r_ingest' = [r_ingest EXCEPT ![r] = FALSE]
    /\ UNCHANGED <<data, embeddings, rag_holder, rag_waiters, s_pc, s_q, s_k, s_seen, s_result>>
    /\ UNCHANGED ixOthers

\* "if self.embeddings is None or len(self.data) == 0" (rag.py:207)
NeverEmpty(vectors, records) == FALSE
IndexEmpty(vectors, records) == ~vectors.present \/ Len(records) = 0

\* search() is called (rag.py:193-218): empty at once, or the query is encoded
SSearch(s, q, k) ==
    /\ s_pc[s] = "idle"
    /\ s_q' = [s_q EXCEPT ![s] = q]
    /\ s_k' = [s_k EXCEPT ![s] = k]
    /\ IF IndexEmpty(embeddings, data)
       THEN /\ s_result' = [s_result EXCEPT ![s] = [kind |-> "list", items |-> <<>>]]
            /\ s_pc' = [s_pc EXCEPT ![s] = "done"]
       ELSE /\ s_pc' = [s_pc EXCEPT ![s] = "encoding"]
            /\ UNCHANGED s_result
    /\ UNCHANGED <<data, embeddings, rag_holder, rag_waiters, r_pc, r_bundle, r_fetched,
                   r_failed, r_ingest, s_seen>>
    /\ UNCHANGED ixOthers

\* the query's embedding is there: similarities, top indices, results (rag.py:222-243)
SCompute(s) ==
    /\ s_pc[s] = "encoding"
    /\ s_seen' = [s_seen EXCEPT ![s] = [records |-> data, vectors |-> embeddings]]
    /\ s_result' = [s_result EXCEPT ![s] = SearchResult(s_q[s], s_k[s], data, embeddings)]
    /\ s_pc' = [s_pc EXCEPT ![s] = "computed"]
    /\ UNCHANGED <<data, embeddings, rag_holder, rag_waiters, r_pc, r_bundle, r_fetched,
                   r_failed, r_ingest, s_q, s_k>>
    /\ UNCHANGED ixOthers

\* model.encode of the query raises in its thread and search() raises
\* (rag.py:215-218)
SEncodeRaise(s) ==
    /\ s_pc[s] = "encoding"
    /\ s_result' = [s_result EXCEPT ![s] = [kind |-> "raised", items |-> <<>>]]
    /\ s_pc' = [s_pc EXCEPT ![s] = "raised"]
    /\ UNCHANGED <<data, embeddings, rag_holder, rag_waiters, r_pc, r_bundle, r_fetched,
                   r_failed, r_ingest, s_q, s_k, s_seen>>
    /\ UNCHANGED ixOthers

\* the caller takes the result, or the exception
SReturn(s) ==
    /\ s_pc[s] \in {"done", "computed", "raised"}
    /\ s_pc' = [s_pc EXCEPT ![s] = "idle"]
    /\ s_seen' = [s_seen EXCEPT ![s] = NoSeen]
    /\ s_result' = [s_result EXCEPT ![s] = NoSearchResult]
    /\ s_q' = [s_q EXCEPT ![s] = 1]
    /\ s_k' = [s_k EXCEPT ![s] = TopK]
    /\ UNCHANGED <<data, embeddings, rag_holder, rag_waiters, r_pc, r_bundle, r_fetched,
                   r_failed, r_ingest>>
    /\ UNCHANGED ixOthers

IxInit ==
    /\ data = <<>>
    /\ embeddings = NoEmbeddings
    /\ rag_holder = NoRefresh
    /\ rag_waiters = <<>>
    /\ r_pc = [r \in Refreshes |-> "idle"]
    /\ r_bundle = [r \in Refreshes |-> EmptyBundle]
    /\ r_fetched = [r \in Refreshes |-> {}]
    /\ r_failed = [r \in Refreshes |-> {}]
    /\ r_ingest = [r \in Refreshes |-> FALSE]
    /\ s_pc = [s \in Searches |-> "idle"]
    /\ s_q = [s \in Searches |-> 1]
    /\ s_k = [s \in Searches |-> TopK]
    /\ s_seen = [s \in Searches |-> NoSeen]
    /\ s_result = [s \in Searches |-> NoSearchResult]

\* the refresh: section fetches, then the ingest
RefreshStep ==
    \/ \E r \in Refreshes : RStart(r)
    \/ \E r \in Refreshes, n \in ItemCounts : RFetchOk(r, n)
    \/ \E r \in Refreshes : RFetchRaise(r)
    \/ \E r \in Refreshes : RLockGranted(r)
    \/ \E r \in Refreshes : REncoded(r)
    \/ \E r \in Refreshes : REncodeRaise(r)
    \/ \E r \in Refreshes : RReturn(r)

\* the index: one caller ingesting any bundle, and searches meanwhile
IxStep ==
    \/ \E b \in Bundles : Ingest("r1", b)
    \/ REncoded("r1")
    \/ REncodeRaise("r1")
    \/ RReturn("r1")
    \/ \E s \in Searches, q \in Queries, k \in Ks : SSearch(s, q, k)
    \/ \E s \in Searches : SCompute(s)
    \/ \E s \in Searches : SEncodeRaise(s)
    \/ \E s \in Searches : SReturn(s)

(***************************************************************************)
(* Websocket session: websocket_chat (presentation/routers/ai.py)          *)
(***************************************************************************)
\* ai.py:331-332: the length the rolling context is cut to
ContextLimit == 20
\* lengths of the context list a client sends in its CHAT_CONTEXT reply
CtxLens == {0, ContextLimit - 1, ContextLimit + 1}

NoKind == ""
NoStage == ""
NoIntent == ""
NoContext == [present |-> FALSE, v |-> <<>>]
NoReply == [action |-> "", content |-> "", n |-> 0]

\* what the first receive() of the session can yield (ai.py:190-232)
HandshakeKinds == {"timeout", "disconnect", "binary", "bad_json", "non_object",
                   "unknown_code", "send_ok", "ctx_nonlist", "ctx_list"}
\* what a receive() of the main loop can yield (ai.py:238-367)
ReadyKinds == {"disconnect", "binary", "bad_json", "non_object", "unknown_code",
               "ctx_list", "send_bad_shape", "send_nonstring", "send_blank", "send_ok"}

\* _send_message's envelope (ai.py:42-52); error is the 'error' key of an
\* ERROR's data, "" when the key is absent
Event(code, message, error, n) ==
    [code |-> code, message |-> message, error |-> error, n |-> n]
ErrorEvent(message) == Event("ERROR", message, "", 0)
\* ai.py:343-349: 'error': str(e)
ProcessingError(stage) == Event("ERROR", "processing", stage, 0)

\* the turns of a client's context list, of the user message and of the reply
ClientContext(n) ==
    [i \in 1..n |-> [role |-> IF i % 2 = 1 THEN "user" ELSE "assistant",
                     content |-> <<"ctx", i>>]]
UserTurn(k) == [role |-> "user", content |-> <<"msg", k>>]
\* what process_query returns as content: the completion's text, or the
\* structure parsed from it (agent.py:246-291)
Contents == {"text", "lotteries"}
\* _format_response_for_user (ai.py:55-112): a text made from the content
FormatResponse(result) == <<result.content, result.n>>
AssistantTurn(result) == [role |-> "assistant", content |-> FormatResponse(result)]

\* a mutation of Truncate: the context is never cut
NoTruncate(ctx) == ctx

\* ai.py:331-333: chat_context[-20:] when longer than 20
Truncate(ctx) ==
    IF Len(ctx) > ContextLimit
    THEN SubSeq(ctx, Len(ctx) - ContextLimit + 1, Len(ctx))
    ELSE ctx

\* a mutation of HandshakeReply: whatever arrives is stored as the context
SaveAnything(kind) == "save"

\* ai.py:190-232: what the handshake does with the first message
HandshakeReply(kind) ==
    CASE kind = "disconnect" -> "return"     \* ai.py:192-194
      [] kind = "non_object" -> "raise"      \* message_data.get: AttributeError, ai.py:382
      [] kind = "ctx_list" -> "save"         \* ai.py:203-212
      [] OTHER -> "empty"                    \* ai.py:213-232

\* a mutation of ReadyReply: every message is dropped silently
IgnoreAll(kind) == "ignore"

\* a mutation of SendMessageReply: the text is not tested for blankness
BlankAccepted(kind) ==
    CASE kind = "send_bad_shape" -> "error"
      [] kind = "send_nonstring" -> "unexpected"
      [] OTHER -> "process"

\* ai.py:258-289: what the SEND_MESSAGE branch does with its data
SendMessageReply(kind) ==
    CASE kind = "send_bad_shape" -> "error"      \* ai.py:259-265
      [] kind = "send_nonstring" -> "unexpected" \* user_message.strip, ai.py:372-378
      [] kind = "send_blank" -> "error"          \* ai.py:268-274
      [] OTHER -> "process"                      \* ai.py:276-289

\* ai.py:238-378: what the main loop does with a message
ReadyReply(kind) ==
    CASE kind = "disconnect" -> "break"          \* ai.py:241-243
      [] kind = "binary" -> "ignore"             \* ai.py:245-247
      [] kind = "bad_json" -> "error"            \* ai.py:361-367
      [] kind = "non_object" -> "unexpected"     \* AttributeError, ai.py:372-378
      [] kind \in {"send_bad_shape", "send_nonstring", "send_blank", "send_ok"} ->
             SendMessageReply(kind)              \* ai.py:258-289
      [] OTHER -> "error"                        \* ai.py:350-356

\* the fixed text of the error event of a message kind
ReadyMessage(kind) ==
    CASE ReadyReply(kind) = "unexpected" -> "unexpected"
      [] kind \in {"bad_json", "send_bad_shape", "send_blank"} -> kind
      [] OTHER -> "unknown_code"

\* a mutation of OnProcessingError: the exception is raised again
Reraise(sent) == "cleanup"

\* ai.py:345-349 and 366-378: when the send of the handler's ERROR has
\* returned the loop goes on; when it raises the loop ends
OnProcessingError(sent) == IF sent THEN "ready" ELSE "cleanup"

\* a mutation of AfterResponseSent: the handler is back at its receive()
\* without having stored the context
BackToReceive == "ready"

\* ai.py:325-336: after the RESPONSE_MESSAGE send and the update of the local
\* list the handler awaits set_json, inside the same loop iteration
AfterResponseSent == "persisting"

\* the session state of the protocol a position of the handler belongs to
WsState ==
    CASE ws_pc \in {"accepted", "establishing", "requesting", "handshake", "ctx_saving",
                    "ctx_confirming"} -> "AWAITING_CONTEXT"
      [] ws_pc \in {"ready", "rejecting"} -> "READY"
      [] ws_pc \in {"grok_sending", "classifying", "rag_sending", "fetching_sending",
                    "refreshing", "encoding", "querying", "search_encoding", "fallback",
                    "analysis", "answering", "response_sending", "persisting", "failing"}
           -> "PROCESSING"
      [] OTHER -> "CLOSED"

\* the client goes away: sends raise from now on, receive() yields the disconnect
ClientDrop ==
    /\ connected
    /\ ws_pc # "closed"
    /\ connected' = FALSE
    /\ UNCHANGED <<ws_pc, chat_context, persisted, events, ws_n, ws_hs, ws_delete, ws_in,
                   ws_intent, ws_result, ws_before, ws_raised>>
    /\ UNCHANGED <<data, embeddings>>
    /\ UNCHANGED wsOthers

\* A send (ai.py:42-52) is awaited: its envelope is in events from the call,
\* and the await ends in a step of its own, returning or, for a client that
\* has gone meanwhile, raising. A send called for a client that has gone
\* raises at once.

\* ai.py:175: the send of CONNECTION_ESTABLISHED is called, outside the try
WsEstablished ==
    /\ ws_pc = "accepted"
    /\ IF connected
       THEN /\ events' = Append(events, Event("CONNECTION_ESTABLISHED", "", "", 0))
            /\ ws_pc' = "establishing"
       ELSE /\ ws_pc' = "closed"
            /\ UNCHANGED events
    /\ UNCHANGED <<connected, chat_context, persisted, ws_n, ws_hs, ws_delete, ws_in,
                   ws_intent, ws_result, ws_before, ws_raised>>
    /\ UNCHANGED <<data, embeddings>>
    /\ UNCHANGED wsOthers

\* ai.py:175-179: the send of CONNECTION_ESTABLISHED returns and the send of
\* REQUEST_CHAT_CONTEXT is called, or it raises and websocket_chat ends
\* without its finally
WsRequestContext ==
    /\ ws_pc = "establishing"
    /\ IF connected
       THEN /\ events' = Append(events, Event("REQUEST_CHAT_CONTEXT", "", "", 0))
            /\ ws_pc' = "requesting"
       ELSE /\ ws_pc' = "closed"
            /\ UNCHANGED events
    /\ UNCHANGED <<connected, chat_context, persisted, ws_n, ws_hs, ws_delete, ws_in,
                   ws_intent, ws_result, ws_before, ws_raised>>
    /\ UNCHANGED <<data, embeddings>>
    /\ UNCHANGED wsOthers

\* ai.py:179-189: the send of REQUEST_CHAT_CONTEXT returns, the try is
\* entered and the first receive() is awaited; or the send raises and
\* websocket_chat ends without its finally
WsContextRequested ==
    /\ ws_pc = "requesting"
    /\ ws_pc' = IF connected THEN "handshake" ELSE "closed"
    /\ UNCHANGED <<connected, chat_context, persisted, events, ws_n, ws_hs, ws_delete, ws_in,
                   ws_intent, ws_result, ws_before, ws_raised>>
    /\ UNCHANGED <<data, embeddings>>
    /\ UNCHANGED wsOthers

\* ai.py:186-232: the first receive(), with its timeout, and what follows it
\* up to the next suspension point
WsHandshake(kind, n) ==
    /\ ws_pc = "handshake"
    /\ (kind = "disconnect") = ~connected
    /\ (kind # "ctx_list") => n = 0
    /\ ws_hs' = kind
    /\ CASE HandshakeReply(kind) = "save" ->
              /\ chat_context' = ClientContext(n)
              /\ ws_pc' = "ctx_saving"
         [] HandshakeReply(kind) = "empty" ->
              /\ chat_context' = <<>>
              /\ ws_pc' = "ready"
         [] OTHER ->
              /\ ws_pc' = "cleanup"
              /\ UNCHANGED chat_context
    /\ UNCHANGED <<connected, persisted, events, ws_n, ws_in, ws_delete,
                   ws_intent, ws_result, ws_before, ws_raised>>
    /\ UNCHANGED <<data, embeddings>>
    /\ UNCHANGED wsOthers

\* ai.py:208-211: set_json returns and the send of CHAT_CONTEXT_RECEIVED is
\* called
WsContextSaved ==
    /\ ws_pc = "ctx_saving"
    /\ persisted' = [present |-> TRUE, v |-> chat_context]
    /\ IF connected
       THEN /\ events' = Append(events, Event("CHAT_CONTEXT_RECEIVED", "", "", Len(chat_context)))
            /\ ws_pc' = "ctx_confirming"
       ELSE /\ ws_pc' = "cleanup"
            /\ UNCHANGED events
    /\ UNCHANGED <<connected, chat_context, ws_n, ws_hs, ws_delete, ws_in,
                   ws_intent, ws_result, ws_before, ws_raised>>
    /\ UNCHANGED <<data, embeddings>>
    /\ UNCHANGED wsOthers

\* ai.py:211-238: the send of CHAT_CONTEXT_RECEIVED returns and the main loop
\* starts, or it raises and the outer handlers (ai.py:380-383) end the session
WsContextConfirmed ==
    /\ ws_pc = "ctx_confirming"
    /\ ws_pc' = IF connected THEN "ready" ELSE "cleanup"
    /\ UNCHANGED <<connected, chat_context, persisted, events, ws_n, ws_hs, ws_delete, ws_in,
                   ws_intent, ws_result, ws_before, ws_raised>>
    /\ UNCHANGED <<data, embeddings>>
    /\ UNCHANGED wsOthers

\* ai.py:208, 221-232, 382: set_json raises. It is awaited inside the tries
\* of ai.py:187 and 197, whose except clauses catch a TimeoutError and a
\* JSONDecodeError of the write as well: the context is emptied and the main
\* loop starts. Any other exception goes to the outer handler, which ends
\* the session
WsContextSaveRaise(caught) ==
    /\ ws_pc = "ctx_saving"
    /\ IF caught
       THEN /\ chat_context' = <<>>
            /\ ws_pc' = "ready"
       ELSE /\ ws_pc' = "cleanup"
            /\ UNCHANGED chat_context
    /\ UNCHANGED <<connected, persisted, events, ws_n, ws_hs, ws_delete, ws_in,
                   ws_intent, ws_result, ws_before, ws_raised>>
    /\ UNCHANGED <<data, embeddings>>
    /\ UNCHANGED wsOthers

\* ai.py:236-283, 350-372: one receive() of the main loop and what follows it
\* up to the next suspension point: the break, the continue, the call of the
\* send of STATUS_GROK_PROCESSING or the call of the send of an ERROR
WsReceive(kind) ==
    /\ ws_pc = "ready"
    /\ (kind = "disconnect") = ~connected
    /\ kind # "disconnect" => ws_n < MaxMessages
    /\ ws_in' = kind
    /\ ws_n' = IF kind = "disconnect" THEN ws_n ELSE ws_n + 1
    /\ CASE ReadyReply(kind) = "break" ->
              /\ ws_pc' = "cleanup"
              /\ UNCHANGED <<events, ws_before, ws_raised>>
         [] ReadyReply(kind) = "ignore" ->
              UNCHANGED <<ws_pc, events, ws_before, ws_raised>>
         [] ReadyReply(kind) = "process" ->
              /\ events' = Append(events, Event("STATUS_GROK_PROCESSING", "", "", 0))
              /\ ws_pc' = "grok_sending"
              /\ ws_before' = chat_context
              /\ ws_raised' = NoStage
         [] OTHER ->
              /\ events' = Append(events, ErrorEvent(ReadyMessage(kind)))
              /\ ws_pc' = "rejecting"
              /\ UNCHANGED <<ws_before, ws_raised>>
    /\ UNCHANGED <<connected, chat_context, persisted, ws_hs, ws_delete, ws_intent, ws_result>>
    /\ UNCHANGED <<data, embeddings>>
    /\ UNCHANGED wsOthers

\* ai.py:261-275, 352-378: the send of the ERROR for a message that was not
\* accepted returns and the loop goes to its next receive(); or it raises and
\* the loop ends (ai.py:366-368, or 369-378 where the second send raises too)
WsRejected ==
    /\ ws_pc = "rejecting"
    /\ ws_pc' = IF connected THEN "ready" ELSE "cleanup"
    /\ UNCHANGED <<connected, chat_context, persisted, events, ws_n, ws_hs, ws_delete, ws_in,
                   ws_intent, ws_result, ws_before, ws_raised>>
    /\ UNCHANGED <<data, embeddings>>
    /\ UNCHANGED wsOthers

\* ai.py:343-349: the except of the processing block calls the send of its
\* ERROR; for a client that has gone that send raises at once and the loop
\* ends (ai.py:366-378)
ProcessingFailed(stage) ==
    /\ ws_raised' = stage
    /\ ws_pc' = IF connected THEN "failing" ELSE "cleanup"
    /\ events' = IF connected THEN Append(events, ProcessingError(stage)) ELSE events

\* ai.py:345-349, 366-378: the send of the handler's ERROR returns and the
\* loop goes to its next receive(), or it raises and the loop ends
WsFailureSent ==
    /\ ws_pc = "failing"
    /\ ws_pc' = OnProcessingError(connected)
    /\ UNCHANGED <<connected, chat_context, persisted, events, ws_n, ws_hs, ws_delete, ws_in,
                   ws_intent, ws_result, ws_before, ws_raised>>
    /\ UNCHANGED <<data, embeddings>>
    /\ UNCHANGED wsOthers

\* ai.py:283-289: the send of STATUS_GROK_PROCESSING returns and
\* _detect_intent is called, or it raises, into the except of ai.py:343
WsGrokSent ==
    /\ ws_pc = "grok_sending"
    /\ IF connected
       THEN /\ ws_pc' = "classifying"
            /\ UNCHANGED <<events, ws_raised>>
       ELSE ProcessingFailed("send")
    /\ UNCHANGED <<connected, chat_context, persisted, ws_n, ws_hs, ws_delete, ws_in,
                   ws_intent, ws_result, ws_before>>
    /\ UNCHANGED <<data, embeddings>>
    /\ UNCHANGED wsOthers

\* process_query is called (agent.py:216-218): the refresh of an empty index
\* is awaited first
EnterQuery == IF data = <<>> THEN "refreshing" ELSE "querying"

\* ai.py:289-297: _detect_intent returns; for a search the send of
\* STATUS_RAG_PROCESSING is called and awaited, otherwise process_query is
\* called (ai.py:308). An envelope is in events from the call of its send
WsClassified(intent) ==
    /\ ws_pc = "classifying"
    /\ ws_intent' = intent
    /\ IF intent = "search"
       THEN IF connected
            THEN /\ events' = Append(events, Event("STATUS_RAG_PROCESSING", "", "", 0))
                 /\ ws_pc' = "rag_sending"
                 /\ UNCHANGED ws_raised
            ELSE ProcessingFailed("send")
       ELSE /\ ws_pc' = EnterQuery
            /\ UNCHANGED <<events, ws_raised>>
    /\ UNCHANGED <<connected, chat_context, persisted, ws_n, ws_hs, ws_delete, ws_in,
                   ws_result, ws_before, data, embeddings>>
    /\ UNCHANGED wsOthers

\* ai.py:297-308: the send of STATUS_RAG_PROCESSING returns, or raises for a
\* client that has gone; rag.data is looked at now (ai.py:300): empty, the
\* send of STATUS_STOLOTO_FETCHING is called and awaited, otherwise
\* process_query is called
WsRagSent ==
    /\ ws_pc = "rag_sending"
    /\ IF connected
       THEN IF data = <<>>
            THEN /\ events' = Append(events, Event("STATUS_STOLOTO_FETCHING", "", "", 0))
                 /\ ws_pc' = "fetching_sending"
                 /\ UNCHANGED ws_raised
            ELSE /\ ws_pc' = EnterQuery
                 /\ UNCHANGED <<events, ws_raised>>
       ELSE ProcessingFailed("send")
    /\ UNCHANGED <<connected, chat_context, persisted, ws_n, ws_hs, ws_delete, ws_in,
                   ws_intent, ws_result, ws_before, data, embeddings>>
    /\ UNCHANGED wsOthers

\* ai.py:289: _detect_intent raises
WsClassifyRaise ==
    /\ ws_pc = "classifying"
    /\ ProcessingFailed("classify")
    /\ UNCHANGED <<connected, chat_context, persisted, ws_n, ws_hs, ws_delete, ws_in,
                   ws_intent, ws_result, ws_before, data, embeddings>>
    /\ UNCHANGED wsOthers

\* ai.py:305-308, agent.py:216: the send of STATUS_STOLOTO_FETCHING returns
\* or raises; process_query is called and looks at rag.data now
WsStatusFetching ==
    /\ ws_pc = "fetching_sending"
    /\ IF connected
       THEN /\ ws_pc' = EnterQuery
            /\ UNCHANGED <<events, ws_raised>>
       ELSE ProcessingFailed("send")
    /\ UNCHANGED <<connected, chat_context, persisted, ws_n, ws_hs, ws_delete, ws_in,
                   ws_intent, ws_result, ws_before, data, embeddings>>
    /\ UNCHANGED wsOthers

\* agent.py:218, 86-112: the three get() calls of process_query's refresh are
\* over and load_from_stoloto_data has run to its first suspension
WsFetched(fetched, bundle) ==
    /\ ws_pc = "refreshing"
    /\ FetchedIndex(fetched, bundle)
    /\ ws_pc' = IF NeedsEncode(fetched, bundle) THEN "encoding" ELSE "querying"
    /\ UNCHANGED <<connected, chat_context, persisted, events, ws_n, ws_hs, ws_delete, ws_in,
                   ws_intent, ws_result, ws_before, ws_raised>>
    /\ UNCHANGED wsOthers

\* rag.py:150-153: the encode of the refresh returns
WsEncoded ==
    /\ ws_pc = "encoding"
    /\ embeddings' = [present |-> TRUE, rows |-> EncodeRecords(data)]
    /\ ws_pc' = "querying"
    /\ UNCHANGED <<connected, chat_context, persisted, events, ws_n, ws_hs, ws_delete, ws_in,
                   ws_intent, ws_result, ws_before, ws_raised, data>>
    /\ UNCHANGED wsOthers

\* rag.py:150, agent.py:118-119: the encode of the refresh raises, the error
\* is logged, the new records stay without embeddings of their own
WsEncodeRaise ==
    /\ ws_pc = "encoding"
    /\ ws_pc' = "querying"
    /\ UNCHANGED <<connected, chat_context, persisted, events, ws_n, ws_hs, ws_delete, ws_in,
                   ws_intent, ws_result, ws_before, ws_raised, data, embeddings>>
    /\ UNCHANGED wsOthers

\* agent.py:222-230, rag.py:207-218: process_query has classified the message
\* itself; for a search it has extracted keywords and called rag.search,
\* which returns nothing at once on an empty index and encodes the query
\* otherwise
WsRouted(action) ==
    /\ ws_pc = "querying"
    /\ ws_pc' = IF action = "answer" THEN "answering"
                ELSE IF IndexEmpty(embeddings, data) THEN "fallback"
                ELSE "search_encoding"
    /\ UNCHANGED <<connected, chat_context, persisted, events, ws_n, ws_hs, ws_delete, ws_in,
                   ws_intent, ws_result, ws_before, ws_raised, data, embeddings>>
    /\ UNCHANGED wsOthers

\* rag.py:222-243, agent.py:232: the query's embedding is there and the
\* results are computed on what the index holds now; an IndexError leaves
\* process_query
WsSearched(q) ==
    /\ ws_pc = "search_encoding"
    /\ LET found == SearchResult(q, TopK, data, embeddings)
       IN  IF found.kind = "raised"
           THEN ProcessingFailed("query")
           ELSE /\ ws_pc' = IF found.items = <<>> THEN "fallback" ELSE "analysis"
                /\ UNCHANGED <<events, ws_raised>>
    /\ UNCHANGED <<connected, chat_context, persisted, ws_n, ws_hs, ws_delete, ws_in,
                   ws_intent, ws_result, ws_before, data, embeddings>>
    /\ UNCHANGED wsOthers

\* the action process_query returns at a position (agent.py:224, 313)
ActionAt(pc) == IF pc = "answering" THEN "answer" ELSE "search"

\* ai.py:308-325: the last completion of process_query returns and so does
\* process_query; the response is formatted and its send is called and
\* awaited. Only the synthesis of found records is parsed (agent.py:281-287)
WsQueried(content) ==
    /\ ws_pc \in {"fallback", "analysis", "answering"}
    /\ content = "lotteries" => ws_pc = "analysis"
    /\ ws_result' = [action |-> ActionAt(ws_pc), content |-> content, n |-> ws_n]
    /\ IF connected
       THEN /\ events' = Append(events, Event("RESPONSE_MESSAGE", ActionAt(ws_pc), "", ws_n))
            /\ ws_pc' = "response_sending"
            /\ UNCHANGED ws_raised
       ELSE ProcessingFailed("send")
    /\ UNCHANGED <<connected, chat_context, persisted, ws_n, ws_hs, ws_delete, ws_in,
                   ws_intent, ws_before, data, embeddings>>
    /\ UNCHANGED wsOthers

\* ai.py:325-336: the send of RESPONSE_MESSAGE returns, the two turns are
\* appended, the context is cut and set_json is called; or the send raises
\* and nothing is appended
WsResponseSent ==
    /\ ws_pc = "response_sending"
    /\ IF connected
       THEN /\ chat_context' = Truncate(chat_context \o <<UserTurn(ws_n), AssistantTurn(ws_result)>>)
            /\ ws_pc' = AfterResponseSent
            /\ UNCHANGED <<events, ws_raised>>
       ELSE /\ ProcessingFailed("send")
            /\ UNCHANGED chat_context
    /\ UNCHANGED <<connected, persisted, ws_n, ws_hs, ws_delete, ws_in, ws_intent, ws_result,
                   ws_before, data, embeddings>>
    /\ UNCHANGED wsOthers

\* ai.py:308: process_query raises: a completion (agent.py:222, 227, 243,
\* 273, 299) or the encode of the query (rag.py:215)
WsQueryRaise ==
    /\ ws_pc \in {"querying", "search_encoding", "fallback", "analysis", "answering"}
    /\ ProcessingFailed("query")
    /\ UNCHANGED <<connected, chat_context, persisted, ws_n, ws_hs, ws_delete, ws_in,
                   ws_intent, ws_result, ws_before, data, embeddings>>
    /\ UNCHANGED wsOthers

\* ai.py:336: set_json returns
WsPersisted ==
    /\ ws_pc = "persisting"
    /\ persisted' = [present |-> TRUE, v |-> chat_context]
    /\ ws_pc' = "ready"
    /\ UNCHANGED <<connected, chat_context, events, ws_n, ws_hs, ws_delete, ws_in,
                   ws_intent, ws_result, ws_before, ws_raised, data, embeddings>>
    /\ UNCHANGED wsOthers

\* ai.py:336: set_json raises
WsPersistRaise ==
    /\ ws_pc = "persisting"
    /\ ProcessingFailed("persist")
    /\ UNCHANGED <<connected, chat_context, persisted, ws_n, ws_hs, ws_delete, ws_in,
                   ws_intent, ws_result, ws_before, data, embeddings>>
    /\ UNCHANGED wsOthers

\* a mutation of AfterDelete: the delete leaves the key
DeleteKeeps(deleted, value) == value

\* redis_client.client.delete(chat_context_key) (ai.py:386-390): the key is
\* gone, or the delete raised and the value stays
AfterDelete(deleted, value) == IF deleted THEN NoContext ELSE value

\* ai.py:384-392: the finally deletes the session's key; a failure is logged
WsCleanup(deleted) ==
    /\ ws_pc = "cleanup"
    /\ persisted' = AfterDelete(deleted, persisted)
    /\ ws_delete' = Append(ws_delete, deleted)
    /\ ws_pc' = "closed"
    /\ UNCHANGED <<connected, chat_context, events, ws_n, ws_hs, ws_in,
                   ws_intent, ws_result, ws_before, ws_raised, data, embeddings>>
    /\ UNCHANGED wsOthers

WsInit ==
    /\ ws_pc = "accepted"
    /\ connected = TRUE
    /\ chat_context = <<>>
    /\ persisted = NoContext
    /\ events = <<>>
    /\ ws_n = 0
    /\ ws_hs = NoKind
    /\ ws_delete = <<>>
    /\ ws_in = NoKind
    /\ ws_intent = NoIntent
    /\ ws_result = NoReply
    /\ ws_before = <<>>
    /\ ws_raised = NoStage

WsStep ==
    \/ ClientDrop
    \/ WsEstablished
    \/ WsRequestContext
    \/ WsContextRequested
    \/ \E kind \in HandshakeKinds, n \in CtxLens : WsHandshake(kind, n)
    \/ WsContextSaved
    \/ WsContextConfirmed
    \/ \E caught \in BOOLEAN : WsContextSaveRaise(caught)
    \/ \E kind \in ReadyKinds : WsReceive(kind)
    \/ WsRejected
    \/ WsGrokSent
    \/ WsFailureSent
    \/ \E intent \in {"search", "answer"} : WsClassified(intent)
    \/ WsClassifyRaise
    \/ WsRagSent
    \/ WsStatusFetching
    \/ \E fetched \in BOOLEAN, bundle \in RefreshBundles : WsFetched(fetched, bundle)
    \/ WsEncoded
    \/ WsEncodeRaise
    \/ \E action \in {"search", "answer"} : WsRouted(action)
    \/ \E q \in Queries : WsSearched(q)
    \/ \E content \in Contents : WsQueried(content)
    \/ WsResponseSent
    \/ WsQueryRaise
    \/ WsPersisted
    \/ WsPersistRaise
    \/ \E deleted \in BOOLEAN : WsCleanup(deleted)

(***************************************************************************)
(* Specifications                                                          *)
(***************************************************************************)
(***************************************************************************)
(* The agent: Agent._detect_intent and Agent.process_query                 *)
(***************************************************************************)
\* texts are sequences of characters
SearchWord == <<"s", "e", "a", "r", "c", "h">>

\* what the classifier may reply (response.choices[0].message.content)
ClassifierOutputs ==
    { <<>>,
      <<"s", "e", "a", "r", "c", "h">>,
      <<"S", "E", "A", "R", "C", "H">>,
      <<" ", "S", "e", "a", "r", "c", "h", " ">>,
      <<"s", "E", "a", "R", "c", "H", ".">>,
      <<"r", "e", "s", "e", "a", "r", "c", "h", "e", "d">>,
      <<"a", "n", "s", "w", "e", "r">>,
      <<"A", "N", "S", "W", "E", "R">>,
      <<"s", "e", "a", "r", " ", "c", "h">>,
      <<"s", "e", "a", "r", "c">>,
      <<"h", "c", "r", "a", "e", "s">>,
      <<" ", " ">>,
      <<"?", "!">> }

\* str.lower() on one character
LowerChar(ch) ==
    CASE ch = "S" -> "s" [] ch = "E" -> "e" [] ch = "A" -> "a" [] ch = "R" -> "r"
      [] ch = "C" -> "c" [] ch = "H" -> "h" [] ch = "N" -> "n" [] ch = "W" -> "w"
      [] OTHER -> ch

\* str.lower()
NoLower(text) == text
Lower(text) == [i \in 1..Len(text) |-> LowerChar(text[i])]

\* str.strip(): the text without its leading and trailing whitespace
IsSpace(ch) == ch = " "
RECURSIVE LStrip(_)
LStrip(text) ==
    IF text # <<>> /\ IsSpace(Head(text)) THEN LStrip(Tail(text)) ELSE text
RECURSIVE RStrip(_)
RStrip(text) ==
    IF text # <<>> /\ IsSpace(text[Len(text)])
    THEN RStrip(SubSeq(text, 1, Len(text) - 1))
    ELSE text
Strip(text) == RStrip(LStrip(text))

\* "word in text"
Contains(text, word) ==
    \E i \in 0..(Len(text) - Len(word)) :
        \A j \in 1..Len(word) : text[i + j] = word[j]

\* intent_raw and intent (agent.py:186-187)
DetectIntent(content) ==
    IF Contains(Lower(Strip(content)), SearchWord) THEN "search" ELSE "answer"

\* what a completion may reply, and json.loads of it (agent.py:281-287)
NoText == ""
ReplyTexts == {"plain words", "{\"lotteries\": []}", "[1, 2]", "{\"lotteries\": ["}
JsonValid(text) == text \in {"{\"lotteries\": []}", "[1, 2]"}
JsonLoads(text) == [json_of |-> text]

NoContent == [kind |-> "none", value |-> NoText]
NoAgResult == [action |-> "", content |-> NoContent]
StrContent(text) == [kind |-> "str", value |-> text]

\* content after the synthesis completion (agent.py:277-287): the parsed
\* value, or the text itself when json.loads raised JSONDecodeError
AlwaysRaw(text) == StrContent(text)
AnalysisContent(text) ==
    IF JsonValid(text) THEN [kind |-> "parsed", value |-> JsonLoads(text)]
    ELSE StrContent(text)

\* content after the no-results completion (agent.py:247): the text as it is
ParsedFallback(text) == AnalysisContent(text)
FallbackContent(text) == StrContent(text)

\* one chat completion: the system prompt it was given and whether its user
\* message carries the "could not find" sentence of agent.py:239
Completion(prompt, hint) == [prompt |-> prompt, hint |-> hint]

\* the user message of a completion: the query (with or without the hint),
\* or the found records (agent.py:236-240, 267, 293)
UserContent(call) ==
    CASE call.prompt = "analysis" -> "lotteries"
      [] call.hint -> "query and hint"
      [] OTHER -> "query"

\* the completion process_query requests at a position (agent.py:222, 227,
\* 243, 273, 299)
CallAt(pc) ==
    CASE pc = "intent" -> Completion("intent", FALSE)
      [] pc = "keywords" -> Completion("keywords", FALSE)
      [] pc = "fallback" -> Completion("conversation", TRUE)
      [] pc = "analysis" -> Completion("analysis", FALSE)
      [] OTHER -> Completion("conversation", FALSE)

\* "if not self.rag.data or force_refresh_rag" (agent.py:216)
RefreshOnlyEmpty(records, force) == records = <<>>
NeedsRefresh(records, force) == records = <<>> \/ force

\* process_query is called (agent.py:216-220): the refresh is awaited, or skipped
AgStart(force) ==
    /\ ag_pc = "idle"
    /\ ag_force' = force
    /\ ag_was_empty' = (data = <<>>)
    /\ IF NeedsRefresh(data, force)
       THEN /\ ag_refreshes' = ag_refreshes + 1
            /\ ag_pc' = "refreshing"
       ELSE /\ ag_pc' = "intent"
            /\ UNCHANGED ag_refreshes
    /\ UNCHANGED <<ag_raw, ag_intent, ag_kw, ag_hits, ag_calls, ag_reply, ag_result,
                   ag_searches, data, embeddings>>
    /\ UNCHANGED agOthers

\* _load_rag_data's three get() calls are over (agent.py:86-112). When one
\* raised, the except of agent.py:118 ends the refresh and the index is as it
\* was. Otherwise load_from_stoloto_data replaces self.data (rag.py:52-132)
\* and, with nothing to encode, sets self.embeddings to None (rag.py:162);
\* with texts it awaits the encode, the old embeddings still in place
AgFetched(fetched, bundle) ==
    /\ ag_pc = "refreshing"
    /\ FetchedIndex(fetched, bundle)
    /\ ag_pc' = IF NeedsEncode(fetched, bundle) THEN "encoding" ELSE "intent"
    /\ UNCHANGED <<ag_raw, ag_intent, ag_kw, ag_hits, ag_calls, ag_reply, ag_result,
                   ag_force, ag_was_empty, ag_refreshes, ag_searches>>
    /\ UNCHANGED agOthers

\* the encode of the refresh returns: self.embeddings is assigned
\* (rag.py:150-153) and _load_rag_data returns
AgEncoded ==
    /\ ag_pc = "encoding"
    /\ embeddings' = [present |-> TRUE, rows |-> EncodeRecords(data)]
    /\ ag_pc' = "intent"
    /\ UNCHANGED <<ag_raw, ag_intent, ag_kw, ag_hits, ag_calls, ag_reply, ag_result,
                   ag_force, ag_was_empty, ag_refreshes, ag_searches, data>>
    /\ UNCHANGED agOthers

\* the encode of the refresh raises: the new records stay with the old
\* embeddings, _load_rag_data logs the error (agent.py:118-119) and returns
AgEncodeRaise ==
    /\ ag_pc = "encoding"
    /\ ag_pc' = "intent"
    /\ UNCHANGED <<ag_raw, ag_intent, ag_kw, ag_hits, ag_calls, ag_reply, ag_result,
                   ag_force, ag_was_empty, ag_refreshes, ag_searches, data, embeddings>>
    /\ UNCHANGED agOthers

\* after the answer intent no keywords are extracted and the index is not
\* searched (agent.py:224, 288): the completion is the next thing
AnswerViaSearch == "keywords"
AfterAnswerIntent == "answering"

\* _detect_intent's completion returns (agent.py:222, 179-187)
AgIntent(content) ==
    /\ ag_pc = "intent"
    /\ ag_raw' = content
    /\ ag_intent' = DetectIntent(content)
    /\ ag_calls' = Append(ag_calls, CallAt(ag_pc))
    /\ ag_pc' = IF DetectIntent(content) = "search" THEN "keywords" ELSE AfterAnswerIntent
    /\ UNCHANGED <<ag_kw, ag_hits, ag_reply, ag_result, data, embeddings,
                   ag_force, ag_was_empty, ag_refreshes, ag_searches>>
    /\ UNCHANGED agOthers

\* extract_keywords' completion returns (agent.py:227)
AgKeywords(keywords) ==
    /\ ag_pc = "keywords"
    /\ ag_kw' = keywords
    /\ ag_calls' = Append(ag_calls, CallAt(ag_pc))
    /\ ag_pc' = "searching"
    /\ UNCHANGED <<ag_raw, ag_intent, ag_hits, ag_reply, ag_result, data, embeddings,
                   ag_force, ag_was_empty, ag_refreshes, ag_searches>>
    /\ UNCHANGED agOthers

\* rag.search(keywords, top_k=3) is called (agent.py:230, rag.py:207-218):
\* an empty index gives no results at once, otherwise the query is encoded
AgSearch ==
    /\ ag_pc = "searching"
    /\ ag_searches' = Append(ag_searches, [top_k |-> TopK, after |-> Len(ag_calls)])
    /\ ag_pc' = IF IndexEmpty(embeddings, data) THEN "fallback" ELSE "search_encoding"
    /\ UNCHANGED <<ag_raw, ag_intent, ag_kw, ag_hits, ag_calls, ag_reply, ag_result,
                   data, embeddings, ag_force, ag_was_empty, ag_refreshes>>
    /\ UNCHANGED agOthers

\* the query's embedding is there (rag.py:222-243, agent.py:232): the results,
\* or the IndexError of rows that have no record, which process_query lets
\* through
AgSearched ==
    /\ ag_pc = "search_encoding"
    /\ LET found == SearchResult(ag_kw, TopK, data, embeddings)
       IN  /\ ag_hits' = found.items
           /\ ag_pc' = IF found.kind = "raised" THEN "raised"
                       ELSE IF found.items = <<>> THEN "fallback" ELSE "analysis"
    /\ UNCHANGED <<ag_raw, ag_intent, ag_kw, ag_calls, ag_reply, ag_result, data, embeddings,
                   ag_force, ag_was_empty, ag_refreshes, ag_searches>>
    /\ UNCHANGED agOthers

\* the encode of the query raises (rag.py:215-218): so does process_query
AgSearchRaise ==
    /\ ag_pc = "search_encoding"
    /\ ag_pc' = "raised"
    /\ UNCHANGED <<ag_raw, ag_intent, ag_kw, ag_hits, ag_calls, ag_reply, ag_result,
                   data, embeddings, ag_force, ag_was_empty, ag_refreshes, ag_searches>>
    /\ UNCHANGED agOthers

\* no results: one conversational completion, its text is the content
\* (agent.py:232-248, 313)
AgFallback(text) ==
    /\ ag_pc = "fallback"
    /\ ag_calls' = Append(ag_calls, CallAt(ag_pc))
    /\ ag_reply' = text
    /\ ag_result' = [action |-> ag_intent, content |-> FallbackContent(text)]
    /\ ag_pc' = "done"
    /\ UNCHANGED <<ag_raw, ag_intent, ag_kw, ag_hits, data, embeddings,
                   ag_force, ag_was_empty, ag_refreshes, ag_searches>>
    /\ UNCHANGED agOthers

\* results: the synthesis completion, then json.loads (agent.py:249-287, 313)
AgAnalysis(text) ==
    /\ ag_pc = "analysis"
    /\ ag_calls' = Append(ag_calls, CallAt(ag_pc))
    /\ ag_reply' = text
    /\ ag_result' = [action |-> ag_intent, content |-> AnalysisContent(text)]
    /\ ag_pc' = "done"
    /\ UNCHANGED <<ag_raw, ag_intent, ag_kw, ag_hits, data, embeddings,
                   ag_force, ag_was_empty, ag_refreshes, ag_searches>>
    /\ UNCHANGED agOthers

\* the answer intent: one conversational completion (agent.py:288-305, 313)
AgAnswer(text) ==
    /\ ag_pc = "answering"
    /\ ag_calls' = Append(ag_calls, CallAt(ag_pc))
    /\ ag_reply' = text
    /\ ag_result' = [action |-> ag_intent, content |-> StrContent(text)]
    /\ ag_pc' = "done"
    /\ UNCHANGED <<ag_raw, ag_intent, ag_kw, ag_hits, data, embeddings,
                   ag_force, ag_was_empty, ag_refreshes, ag_searches>>
    /\ UNCHANGED agOthers

\* a chat completion was requested and raises: process_query raises
AgCompletionRaise ==
    /\ ag_pc \in {"intent", "keywords", "fallback", "analysis", "answering"}
    /\ ag_calls' = Append(ag_calls, CallAt(ag_pc))
    /\ ag_pc' = "raised"
    /\ UNCHANGED <<ag_raw, ag_intent, ag_kw, ag_hits, ag_reply, ag_result,
                   data, embeddings, ag_force, ag_was_empty, ag_refreshes, ag_searches>>
    /\ UNCHANGED agOthers

\* the caller takes the result (or the exception)
AgReturn ==
    /\ ag_pc \in {"done", "raised"}
    /\ ag_pc' = "idle"
    /\ ag_raw' = <<>>
    /\ ag_intent' = NoIntent
    /\ ag_kw' = 1
    /\ ag_hits' = <<>>
    /\ ag_calls' = <<>>
    /\ ag_reply' = NoText
    /\ ag_result' = NoAgResult
    /\ ag_force' = FALSE
    /\ ag_was_empty' = FALSE
    /\ ag_refreshes' = 0
    /\ ag_searches' = <<>>
    /\ UNCHANGED <<data, embeddings>>
    /\ UNCHANGED agOthers

AgInit ==
    /\ ag_pc = "idle"
    /\ ag_raw = <<>>
    /\ ag_intent = NoIntent
    /\ ag_kw = 1
    /\ ag_hits = <<>>
    /\ ag_calls = <<>>
    /\ ag_reply = NoText
    /\ ag_result = NoAgResult
    /\ ag_force = FALSE
    /\ ag_was_empty = FALSE
    /\ ag_refreshes = 0
    /\ ag_searches = <<>>

AgStep ==
    \/ \E force \in BOOLEAN : AgStart(force)
    \/ \E fetched \in BOOLEAN, b \in Bundles : AgFetched(fetched, b)
    \/ AgEncoded
    \/ AgEncodeRaise
    \/ \E content \in ClassifierOutputs : AgIntent(content)
    \/ \E keywords \in Queries : AgKeywords(keywords)
    \/ AgSearch
    \/ AgSearched
    \/ AgSearchRaise
    \/ \E text \in ReplyTexts : AgFallback(text)
    \/ \E text \in ReplyTexts : AgAnalysis(text)
    \/ \E text \in ReplyTexts : AgAnswer(text)
    \/ AgCompletionRaise
    \/ AgReturn

(***************************************************************************)
(* Chat service: ChatService, with a caller that takes its list from       *)
(* initialize_chat_context and passes it to each process_user_message      *)
(***************************************************************************)
\* chat_service.py:65-102: what initialize_chat_context does with the first
\* message; a JSON value that is not an object makes message_data.get raise,
\* which neither except clause catches
InitializeReply(kind) ==
    CASE kind = "non_object" -> "raise"      \* chat_service.py:75, not caught at 94, 100
      [] kind = "ctx_list" -> "save"         \* chat_service.py:78-87
      [] OTHER -> "empty"                    \* chat_service.py:67-69, 88-102

\* send_message is the caller's callable and is awaited: an event is in
\* cs_events from the call of its send, and the await ends in a step of its
\* own, returning or raising.

\* chat_service.py:55: the send of CONNECTION_ESTABLISHED is called
CsEstablished ==
    /\ cs_pc = "start"
    /\ cs_events' = Append(cs_events, "CONNECTION_ESTABLISHED")
    /\ cs_pc' = "establishing"
    /\ UNCHANGED <<cs_context, cs_local, cs_persisted, cs_n, cs_result, data, embeddings>>
    /\ UNCHANGED csOthers

\* chat_service.py:55-59: the send of CONNECTION_ESTABLISHED returns and the
\* send of REQUEST_CHAT_CONTEXT is called
CsRequestContext ==
    /\ cs_pc = "establishing"
    /\ cs_events' = Append(cs_events, "REQUEST_CHAT_CONTEXT")
    /\ cs_pc' = "requesting"
    /\ UNCHANGED <<cs_context, cs_local, cs_persisted, cs_n, cs_result, data, embeddings>>
    /\ UNCHANGED csOthers

\* chat_service.py:59-65: the send of REQUEST_CHAT_CONTEXT returns and the
\* first receive_message() is awaited
CsContextRequested ==
    /\ cs_pc = "requesting"
    /\ cs_pc' = "receiving"
    /\ UNCHANGED <<cs_context, cs_local, cs_persisted, cs_events, cs_n, cs_result,
                   data, embeddings>>
    /\ UNCHANGED csOthers

\* chat_service.py:55, 59, 87: a send of initialize_chat_context raises. The
\* sends of lines 55 and 59 are outside the try: the exception goes to the
\* caller. The send of line 87 is inside the tries of lines 63 and 73: a
\* TimeoutError or a JSONDecodeError is caught (chat_service.py:94-102), the
\* list is emptied and returned; any other exception goes to the caller
CsInitializeSendRaise(caught) ==
    /\ cs_pc \in {"establishing", "requesting", "ctx_confirming"}
    /\ caught => cs_pc = "ctx_confirming"
    /\ IF caught
       THEN /\ cs_local' = <<>>
            /\ cs_pc' = "initialized"
       ELSE /\ cs_pc' = "raised"
            /\ UNCHANGED cs_local
    /\ UNCHANGED <<cs_context, cs_persisted, cs_events, cs_n, cs_result, data, embeddings>>
    /\ UNCHANGED csOthers

\* chat_service.py:65-102: the first receive_message() returns or times out,
\* and what follows it up to the next suspension point
CsInitialize(kind, n) ==
    /\ cs_pc = "receiving"
    /\ (kind # "ctx_list") => n = 0
    /\ CASE InitializeReply(kind) = "save" ->
              /\ cs_local' = ClientContext(n)
              /\ cs_pc' = "ctx_saving"
         [] InitializeReply(kind) = "empty" ->
              /\ cs_local' = <<>>
              /\ cs_pc' = "initialized"
         [] OTHER ->
              /\ cs_pc' = "raised"
              /\ UNCHANGED cs_local
    /\ UNCHANGED <<cs_context, cs_persisted, cs_events, cs_n, cs_result, data, embeddings>>
    /\ UNCHANGED csOthers

\* chat_service.py:84-87: set_json returns and the send of
\* CHAT_CONTEXT_RECEIVED is called
CsContextSaved ==
    /\ cs_pc = "ctx_saving"
    /\ cs_persisted' = [present |-> TRUE, v |-> cs_local]
    /\ cs_events' = Append(cs_events, "CHAT_CONTEXT_RECEIVED")
    /\ cs_pc' = "ctx_confirming"
    /\ UNCHANGED <<cs_context, cs_local, cs_n, cs_result, data, embeddings>>
    /\ UNCHANGED csOthers

\* chat_service.py:87-104: the send of CHAT_CONTEXT_RECEIVED returns
CsContextConfirmed ==
    /\ cs_pc = "ctx_confirming"
    /\ cs_pc' = "initialized"
    /\ UNCHANGED <<cs_context, cs_local, cs_persisted, cs_events, cs_n, cs_result,
                   data, embeddings>>
    /\ UNCHANGED csOthers

\* chat_service.py:84, 94-102: set_json raises. A TimeoutError or a
\* JSONDecodeError is caught by the tries of lines 63 and 73 it is awaited
\* in: the list is emptied and returned. Any other exception goes out of
\* initialize_chat_context
CsContextSaveRaise(caught) ==
    /\ cs_pc = "ctx_saving"
    /\ IF caught
       THEN /\ cs_local' = <<>>
            /\ cs_pc' = "initialized"
       ELSE /\ cs_pc' = "raised"
            /\ UNCHANGED cs_local
    /\ UNCHANGED <<cs_context, cs_persisted, cs_events, cs_n, cs_result, data, embeddings>>
    /\ UNCHANGED csOthers

\* chat_service.py:104: initialize_chat_context returns its list, which the
\* caller holds from now on
CsInitialized ==
    /\ cs_pc = "initialized"
    /\ cs_context' = cs_local
    /\ cs_pc' = "idle"
    /\ UNCHANGED <<cs_local, cs_persisted, cs_events, cs_n, cs_result, data, embeddings>>
    /\ UNCHANGED csOthers

\* chat_service.py:106-131: the caller calls process_user_message with its
\* list; the parameter chat_context is bound to that same list; the send of
\* the first status is called
CsCall ==
    /\ cs_pc \in {"idle", "returned"}
    /\ cs_n < MaxMessages
    /\ cs_n' = cs_n + 1
    /\ cs_local' = cs_context
    /\ cs_events' = Append(cs_events, "STATUS_GROK_PROCESSING")
    /\ cs_pc' = "grok_sending"
    /\ UNCHANGED <<cs_context, cs_persisted, cs_result, data, embeddings>>
    /\ UNCHANGED csOthers

\* chat_service.py:128-133: the send of STATUS_GROK_PROCESSING returns and
\* _detect_intent is called
CsGrokSent ==
    /\ cs_pc = "grok_sending"
    /\ cs_pc' = "classifying"
    /\ UNCHANGED <<cs_context, cs_local, cs_persisted, cs_events, cs_n, cs_result,
                   data, embeddings>>
    /\ UNCHANGED csOthers

\* chat_service.py:186-191: the except calls the send of ERROR
CsFailed ==
    /\ cs_events' = Append(cs_events, "ERROR")
    /\ cs_pc' = "failing"

\* chat_service.py:188-192: the send of ERROR returns and the exception is
\* raised again, or the send raises itself: process_user_message raises
CsFailureSent ==
    /\ cs_pc = "failing"
    /\ cs_pc' = "raised"
    /\ UNCHANGED <<cs_context, cs_local, cs_persisted, cs_events, cs_n, cs_result,
                   data, embeddings>>
    /\ UNCHANGED csOthers

\* chat_service.py:133-140: _detect_intent returns; for a search the send of
\* STATUS_RAG_PROCESSING is called and awaited, otherwise process_query is
\* called (chat_service.py:150)
CsClassified(intent) ==
    /\ cs_pc = "classifying"
    /\ IF intent = "search"
       THEN /\ cs_events' = Append(cs_events, "STATUS_RAG_PROCESSING")
            /\ cs_pc' = "rag_sending"
       ELSE /\ cs_pc' = EnterQuery
            /\ UNCHANGED cs_events
    /\ UNCHANGED <<cs_context, cs_local, cs_persisted, cs_n, cs_result, data, embeddings>>
    /\ UNCHANGED csOthers

\* chat_service.py:140-150: the send of STATUS_RAG_PROCESSING returns and
\* rag.data is looked at now (chat_service.py:143): empty, the send of
\* STATUS_STOLOTO_FETCHING is called and awaited, otherwise process_query is
\* called
CsRagSent ==
    /\ cs_pc = "rag_sending"
    /\ IF data = <<>>
       THEN /\ cs_events' = Append(cs_events, "STATUS_STOLOTO_FETCHING")
            /\ cs_pc' = "fetching_sending"
       ELSE /\ cs_pc' = EnterQuery
            /\ UNCHANGED cs_events
    /\ UNCHANGED <<cs_context, cs_local, cs_persisted, cs_n, cs_result, data, embeddings>>
    /\ UNCHANGED csOthers

\* chat_service.py:147-150, agent.py:216: the send of STATUS_STOLOTO_FETCHING
\* returns; process_query is called and looks at rag.data now
CsStatusFetching ==
    /\ cs_pc = "fetching_sending"
    /\ cs_pc' = EnterQuery
    /\ UNCHANGED <<cs_context, cs_local, cs_persisted, cs_events, cs_n, cs_result,
                   data, embeddings>>
    /\ UNCHANGED csOthers

\* chat_service.py:128, 137, 144, 167: send_message raises, into the except
\* of chat_service.py:186
CsSendRaise ==
    /\ cs_pc \in {"grok_sending", "rag_sending", "fetching_sending", "response_sending"}
    /\ CsFailed
    /\ UNCHANGED <<cs_context, cs_local, cs_persisted, cs_n, cs_result, data, embeddings>>
    /\ UNCHANGED csOthers

\* chat_service.py:133: _detect_intent raises
CsClassifyRaise ==
    /\ cs_pc = "classifying"
    /\ CsFailed
    /\ UNCHANGED <<cs_context, cs_local, cs_persisted, cs_n, cs_result, data, embeddings>>
    /\ UNCHANGED csOthers

\* chat_service.py:170-171: list.append changes the list object itself, which
\* is the caller's
AppendedTo(list, turns) == list \o turns

\* agent.py:218, 86-112: the three get() calls of process_query's refresh are
\* over and load_from_stoloto_data has run to its first suspension
CsFetched(fetched, bundle) ==
    /\ cs_pc = "refreshing"
    /\ FetchedIndex(fetched, bundle)
    /\ cs_pc' = IF NeedsEncode(fetched, bundle) THEN "encoding" ELSE "querying"
    /\ UNCHANGED <<cs_context, cs_local, cs_persisted, cs_events, cs_n, cs_result>>
    /\ UNCHANGED csOthers

\* rag.py:150-153: the encode of the refresh returns
CsEncoded ==
    /\ cs_pc = "encoding"
    /\ embeddings' = [present |-> TRUE, rows |-> EncodeRecords(data)]
    /\ cs_pc' = "querying"
    /\ UNCHANGED <<cs_context, cs_local, cs_persisted, cs_events, cs_n, cs_result, data>>
    /\ UNCHANGED csOthers

\* rag.py:150, agent.py:118-119: the encode of the refresh raises and is logged
CsEncodeRaise ==
    /\ cs_pc = "encoding"
    /\ cs_pc' = "querying"
    /\ UNCHANGED <<cs_context, cs_local, cs_persisted, cs_events, cs_n, cs_result, data, embeddings>>
    /\ UNCHANGED csOthers

\* agent.py:222-230, rag.py:207-218: process_query has classified the message
\* itself and, for a search, called rag.search
CsRouted(action) ==
    /\ cs_pc = "querying"
    /\ cs_pc' = IF action = "answer" THEN "answering"
                ELSE IF IndexEmpty(embeddings, data) THEN "fallback"
                ELSE "search_encoding"
    /\ UNCHANGED <<cs_context, cs_local, cs_persisted, cs_events, cs_n, cs_result, data, embeddings>>
    /\ UNCHANGED csOthers

\* rag.py:222-243, agent.py:232: the results are computed on what the index
\* holds now; an IndexError leaves process_query
CsSearched(q) ==
    /\ cs_pc = "search_encoding"
    /\ LET found == SearchResult(q, TopK, data, embeddings)
       IN  IF found.kind = "raised"
           THEN CsFailed
           ELSE /\ cs_pc' = IF found.items = <<>> THEN "fallback" ELSE "analysis"
                /\ UNCHANGED cs_events
    /\ UNCHANGED <<cs_context, cs_local, cs_persisted, cs_n, cs_result, data, embeddings>>
    /\ UNCHANGED csOthers

\* chat_service.py:150-167: process_query returns; the response is formatted
\* and its send is called and awaited
CsQueried(content) ==
    /\ cs_pc \in {"fallback", "analysis", "answering"}
    /\ content = "lotteries" => cs_pc = "analysis"
    /\ cs_result' = [action |-> ActionAt(cs_pc), content |-> content, n |-> cs_n]
    /\ cs_events' = Append(cs_events, "RESPONSE_MESSAGE")
    /\ cs_pc' = "response_sending"
    /\ UNCHANGED <<cs_context, cs_local, cs_persisted, cs_n, data, embeddings>>
    /\ UNCHANGED csOthers

\* chat_service.py:167-179: the send of RESPONSE_MESSAGE returns; the two
\* turns are appended to the list the caller passed, and when that makes
\* more than 20 the name chat_context is bound to a new list of the last 20,
\* the caller's list staying as it is; set_json is called
CsResponseSent ==
    /\ cs_pc = "response_sending"
    /\ LET turns == <<UserTurn(cs_n), AssistantTurn(cs_result)>>
       IN /\ cs_context' = AppendedTo(cs_context, turns)
          /\ cs_local' = Truncate(cs_local \o turns)
    /\ cs_pc' = "persisting"
    /\ UNCHANGED <<cs_persisted, cs_events, cs_n, cs_result, data, embeddings>>
    /\ UNCHANGED csOthers

\* chat_service.py:150: process_query raises: a completion or the encode of
\* the query
CsQueryRaise ==
    /\ cs_pc \in {"querying", "search_encoding", "fallback", "analysis", "answering"}
    /\ CsFailed
    /\ UNCHANGED <<cs_context, cs_local, cs_persisted, cs_n, cs_result, data, embeddings>>
    /\ UNCHANGED csOthers

\* chat_service.py:179-185: set_json returns and so does process_user_message
CsPersisted ==
    /\ cs_pc = "persisting"
    /\ cs_persisted' = [present |-> TRUE, v |-> cs_local]
    /\ cs_pc' = "returned"
    /\ UNCHANGED <<cs_context, cs_local, cs_events, cs_n, cs_result, data, embeddings>>
    /\ UNCHANGED csOthers

\* chat_service.py:179: set_json raises
CsPersistRaise ==
    /\ cs_pc = "persisting"
    /\ CsFailed
    /\ UNCHANGED <<cs_context, cs_local, cs_persisted, cs_n, cs_result, data, embeddings>>
    /\ UNCHANGED csOthers

\* chat_service.py:194-206: the caller calls cleanup_context between or after
\* its calls; the delete removes the stored context, and a delete that
\* raises is logged and leaves it
CsCleanup(deleted) ==
    /\ cs_pc \in {"idle", "returned", "raised"}
    /\ cs_persisted' = IF deleted THEN NoContext ELSE cs_persisted
    /\ UNCHANGED <<cs_pc, cs_context, cs_local, cs_events, cs_n, cs_result, data, embeddings>>
    /\ UNCHANGED csOthers

CsInit ==
    /\ cs_pc = "start"
    /\ cs_context = <<>>
    /\ cs_local = <<>>
    /\ cs_persisted = NoContext
    /\ cs_events = <<>>
    /\ cs_n = 0
    /\ cs_result = NoReply

CsStep ==
    \/ CsEstablished
    \/ CsRequestContext
    \/ CsContextRequested
    \/ \E caught \in BOOLEAN : CsInitializeSendRaise(caught)
    \/ \E kind \in HandshakeKinds, n \in CtxLens : CsInitialize(kind, n)
    \/ CsContextSaved
    \/ CsContextConfirmed
    \/ \E caught \in BOOLEAN : CsContextSaveRaise(caught)
    \/ CsInitialized
    \/ CsCall
    \/ CsGrokSent
    \/ CsFailureSent
    \/ \E intent \in {"search", "answer"} : CsClassified(intent)
    \/ CsClassifyRaise
    \/ CsRagSent
    \/ CsStatusFetching
    \/ CsSendRaise
    \/ \E fetched \in BOOLEAN, bundle \in RefreshBundles : CsFetched(fetched, bundle)
    \/ CsEncoded
    \/ CsEncodeRaise
    \/ \E action \in {"search", "answer"} : CsRouted(action)
    \/ \E q \in Queries : CsSearched(q)
    \/ \E content \in Contents : CsQueried(content)
    \/ CsResponseSent
    \/ CsQueryRaise
    \/ CsPersisted
    \/ CsPersistRaise
    \/ \E deleted \in BOOLEAN : CsCleanup(deleted)

Init == GwInit /\ FInit /\ IxInit /\ WsInit /\ AgInit /\ CsInit

SpecGateway == Init /\ [][GwStep]_vars

\* _wait_for_rate_limit alone: the callers stop where it returns
RateLimitStep ==
    \/ \E c \in Callers : GwRequest(c)
    \/ \E c \in Callers : GwLockGranted(c)
    \/ \E c \in Callers : GwWake(c)
    \/ Tick

\* the event loop runs every task that is ready: a caller the lock was
\* handed to resumes, a sleep whose time has come returns, time passes
SpecGatewayFair ==
    /\ Init
    /\ [][RateLimitStep]_vars
    /\ WF_vars(Tick)
    /\ \A c \in Callers : WF_vars(GwLockGranted(c))
    /\ \A c \in Callers : WF_vars(GwWake(c))
SpecFetcher == Init /\ [][FStep]_vars
SpecIndex == Init /\ [][IxStep]_vars
SpecRefresh == Init /\ [][RefreshStep]_vars
SpecSession == Init /\ [][WsStep]_vars

\* the steps of websocket_chat itself: those that leave the client connected
\* as it was
WsHandlerStep == WsStep /\ connected' = connected

\* the event loop resumes the handler whenever what it awaits is over, and
\* every call it awaits ends, by returning or by raising
SpecSessionFair == Init /\ [][WsStep]_vars /\ WF_vars(WsHandlerStep)
SpecAgent == Init /\ [][AgStep]_vars
SpecChatService == Init /\ [][CsStep]_vars

(***************************************************************************)
(* C1: the dispatch-start timestamps (the values written to                *)
(* last_request_time) of any two consecutive dispatches differ by at least *)
(* the configured interval, however the calls interleave and however long  *)
(* earlier requests stay in flight.                                        *)
(***************************************************************************)
C1_DispatchSpacing ==
    \A i \in 1..(Len(gw_stamps) - 1) : gw_stamps[i + 1] - gw_stamps[i] >= RateLimit

\* three dispatches, the first two still in flight, one caller has slept
C1_Witness ==
    /\ Len(gw_stamps) >= 3
    /\ Cardinality({c \in Callers : gw_pc[c] = "sending"}) >= 2
    /\ \E c \in Callers : gw_wake[c] > 0

(***************************************************************************)
(* C4: when the cache read of get(force_refresh = False) finds a populated *)
(* entry under the section's key, get() returns that entry deserialized    *)
(* and _fetch_from_api is never invoked.                                   *)
(***************************************************************************)
C4_HitNeverFetches ==
    \A f \in Fetchers :
        (/\ ~f_force[f]
         /\ f_read[f].done /\ f_read[f].ok /\ f_read[f].entry # Absent)
        => /\ f_pc[f] = "done"
           /\ f_fetches[f] = 0
           /\ f_writes[f] = 0
           /\ f_result[f] = Model(f_sec[f], f_read[f].entry.v)

\* a get(False) that has returned an entry another get() had written
C4_Witness ==
    \E f \in Fetchers :
        /\ f_pc[f] = "done" /\ ~f_force[f]
        /\ f_read[f].ok /\ f_read[f].entry # Absent
        /\ f_result[f] # NoneModel

(***************************************************************************)
(* C2: a search that runs concurrently with an ingest computes its result  *)
(* from one complete (records, vectors) pair: the vectors it ranks are the *)
(* encodings of the records it returns from, row by row, never the records *)
(* of one ingest and the vectors of another.                               *)
(***************************************************************************)
C2_SearchSeesOnePair ==
    \A s \in Searches :
        s_pc[s] = "computed"
        => /\ s_seen[s].vectors.present
           /\ s_seen[s].vectors.rows =
                  Encode([i \in 1..Len(s_seen[s].records) |-> ToText(s_seen[s].records[i])])

(***************************************************************************)
(* C3: in every state another task can observe, the number of stored       *)
(* embedding vectors equals the number of stored records (absent vectors   *)
(* count as zero).                                                         *)
(***************************************************************************)
C3_VectorsMatchRecords ==
    Len(embeddings.rows) = Len(data)

(***************************************************************************)
(* C5: in the multi-section refresh each section fetch is independent:     *)
(* when the fetch of one section fails the other sections are still        *)
(* fetched, and ingest is called with a bundle that carries None for the   *)
(* failed section.                                                         *)
(***************************************************************************)
C5_PartialFailureIngests ==
    \A r \in Refreshes :
        (r_pc[r] = "done" /\ r_failed[r] # {})
        => /\ r_fetched[r] = {FetchOrder[i] : i \in 1..Len(FetchOrder)}
           /\ r_ingest[r]
           /\ \A sec \in r_failed[r] : r_bundle[r][sec] = NoneSection

(***************************************************************************)
(* C6: during the context handshake a timeout, a malformed payload (any    *)
(* text that is not a well-formed context reply, valid JSON that is not an *)
(* object included), a frame without text or a wrong message type never    *)
(* fails the session: it goes on to READY with an empty context.           *)
(***************************************************************************)
C6_HandshakeNeverFails ==
    [][(/\ ws_pc = "handshake"
        /\ ws_hs' \in {"timeout", "binary", "bad_json", "non_object",
                       "unknown_code", "send_ok", "ctx_nonlist"})
       => (WsState' = "READY" /\ chat_context' = <<>>)]_vars

(***************************************************************************)
(* C7: in READY every malformed envelope (bad JSON syntax, valid JSON that *)
(* is not an object, an unknown code, a wrong payload shape of             *)
(* SEND_MESSAGE) produces exactly one error event, changes neither the     *)
(* rolling context, nor the persisted context, nor the index, and leaves   *)
(* the session in READY with the connection open: while the error is sent  *)
(* and, once the send has returned, at the next receive(). The session     *)
(* leaves READY from there only when the client has gone meanwhile.        *)
(***************************************************************************)
C7_MalformedKeepsReady ==
    [][/\ (/\ WsState = "READY"
           /\ ws_n' = ws_n + 1
           /\ ws_in' \in {"bad_json", "non_object", "unknown_code",
                          "send_bad_shape", "send_nonstring"})
          => /\ ws_pc = "ready"
             /\ ws_pc' = "rejecting"
             /\ WsState' = "READY"
             /\ connected'
             /\ Len(events') = Len(events) + 1
             /\ SubSeq(events', 1, Len(events)) = events
             /\ events'[Len(events')].code = "ERROR"
             /\ chat_context' = chat_context
             /\ persisted' = persisted
             /\ data' = data
             /\ embeddings' = embeddings
       /\ ws_pc = "rejecting"
          => /\ events' = events
             /\ chat_context' = chat_context
             /\ persisted' = persisted
             /\ data' = data
             /\ embeddings' = embeddings
             /\ ws_n' = ws_n
             /\ ws_pc' # ws_pc
                => /\ connected' = connected
                   /\ ws_pc' = IF connected THEN "ready" ELSE "cleanup"]_vars

\* C7: a JSON value that is not an object was read in READY, after a message
\* was processed, and the session is READY again with an error event sent
C7_Witness ==
    /\ ws_pc = "ready"
    /\ ws_in = "non_object"
    /\ connected
    /\ events[Len(events)].code = "ERROR"
    /\ chat_context # <<>>
    /\ persisted.present
    /\ data # <<>>

(***************************************************************************)
(* C8: an exception raised while a message is in PROCESSING by the         *)
(* classification, by process_query or by the persist, the client being    *)
(* connected, produces exactly one error event that carries a diagnostic   *)
(* string; when the send of that event has returned the session is READY   *)
(* again, where later messages are read. An exception of the refresh is    *)
(* swallowed: no event, the processing goes on. When the client has gone,  *)
(* at the exception or while the error event is sent, no further event     *)
(* follows and the session goes to its cleanup.                            *)
(***************************************************************************)
C8_ProcessingErrorKeepsReady ==
    [][/\ (/\ WsState = "PROCESSING"
           /\ ws_raised = NoStage
           /\ ws_raised' # NoStage)
          => IF connected
             THEN /\ ws_raised' \in {"classify", "query", "persist"}
                  /\ ws_pc' = "failing"
                  /\ connected'
                  /\ Len(events') = Len(events) + 1
                  /\ SubSeq(events', 1, Len(events)) = events
                  /\ events'[Len(events')].code = "ERROR"
                  /\ events'[Len(events')].error = ws_raised'
                  /\ events'[Len(events')].error # ""
             ELSE /\ events' = events
                  /\ ws_pc' = "cleanup"
       /\ ws_pc = "failing"
          => /\ events' = events
             /\ ws_raised' = ws_raised
             /\ ws_pc' # ws_pc
                => /\ connected' = connected
                   /\ ws_pc' = IF connected THEN "ready" ELSE "cleanup"
       /\ ws_pc \in {"refreshing", "encoding"}
          => /\ events' = events
             /\ ws_raised' = NoStage
             /\ ws_pc' \in {ws_pc, "encoding", "querying"}]_vars

\* C8 as stated: every exception of the processing block, those of a send
\* included, produces an error event with a diagnostic and the session is
\* READY after it
C8_AnyProcessingError ==
    [][/\ (/\ WsState = "PROCESSING"
           /\ ws_raised = NoStage
           /\ ws_raised' # NoStage)
          => /\ Len(events') = Len(events) + 1
             /\ events'[Len(events')].code = "ERROR"
             /\ events'[Len(events')].error # ""
             /\ WsState' \in {"PROCESSING", "READY"}
       /\ (ws_pc = "failing" /\ ws_pc' # ws_pc) => WsState' = "READY"]_vars

\* C8: a processing error was reported and a later message got its response
C8_Witness ==
    \E i, j \in DOMAIN events :
        /\ i < j
        /\ events[i].code = "ERROR" /\ events[i].error \in {"classify", "query", "persist"}
        /\ events[j].code = "RESPONSE_MESSAGE"

(***************************************************************************)
(* C9: after each successfully processed message the value persisted under *)
(* the session's key is exactly the most recent 20 entries of the previous *)
(* context followed by the user turn and the formatted assistant turn.     *)
(***************************************************************************)
C9_PersistsLastTwenty ==
    [][(/\ ws_pc = "persisting"
        /\ WsState' = "READY"
        /\ ws_raised' = NoStage)
       => LET full == ws_before \o <<UserTurn(ws_n), AssistantTurn(ws_result)>>
              cut == IF Len(full) <= ContextLimit THEN 0 ELSE Len(full) - ContextLimit
          IN  /\ persisted'.present
              /\ persisted'.v = [i \in 1..(Len(full) - cut) |-> full[cut + i]]]_vars

\* C9: a message was processed on top of 19 earlier turns: 20 are persisted,
\* the oldest turn is gone
C9_Witness ==
    /\ ws_pc = "ready"
    /\ ws_in = "send_ok"
    /\ ws_raised = NoStage
    /\ Len(ws_before) = ContextLimit - 1
    /\ persisted.present
    /\ Len(persisted.v) = ContextLimit
    /\ persisted.v[1] = ws_before[2]
    /\ persisted.v[ContextLimit] = AssistantTurn(ws_result)

(***************************************************************************)
(* C10: every value persisted under the session's context key, the one     *)
(* stored from the client's context reply during the handshake included,   *)
(* holds at most 20 turns.                                                 *)
(***************************************************************************)
C10_PersistedAtMostTwenty ==
    persisted.present => Len(persisted.v) <= ContextLimit

(***************************************************************************)
(* C11 as stated: on every path that ends a session the session reaches    *)
(* CLOSED with the delete of its persisted context attempted exactly once, *)
(* and after a successful delete no context of the session remains.        *)
(***************************************************************************)
C11_EveryEndDeletes ==
    ws_pc = "closed"
    => /\ Len(ws_delete) = 1
       /\ ws_delete[1] => ~persisted.present

(***************************************************************************)
(* C11, amended: a session whose handshake has begun (both greeting sends  *)
(* have returned) and that ends, by a disconnect or by an exception,       *)
(* reaches CLOSED through exactly one attempted delete, made after the     *)
(* last persist, whose failure ends the session all the same; after a      *)
(* successful delete no context remains. A session whose greeting send     *)
(* raises, the client having gone, ends without a delete and has persisted *)
(* nothing. Every session whose client has gone reaches CLOSED.            *)
(***************************************************************************)
C11_TeardownDeletes ==
    /\ [](/\ Len(ws_delete) <= 1
          /\ Len(ws_delete) = 1
             => /\ ws_pc = "closed"
                /\ ws_hs # NoKind
                /\ ws_delete[1] => ~persisted.present
          /\ (ws_pc = "closed" /\ ws_delete = <<>>)
             => /\ ws_hs = NoKind
                /\ ~connected
                /\ ~persisted.present
                /\ ws_n = 0
                /\ Len(events) <= 2
          /\ ws_hs # NoKind
             => ws_pc \notin {"accepted", "establishing", "requesting"})
    /\ [][/\ (ws_pc # "closed" /\ ws_pc' = "closed")
             => \/ /\ ws_pc = "cleanup"
                   /\ Len(ws_delete') = 1
                   /\ ~ws_delete'[1] => persisted' = persisted
                \/ /\ ws_pc \in {"accepted", "establishing", "requesting"}
                   /\ ~connected
                   /\ ws_delete' = <<>>
          /\ ws_pc = "closed"
             => /\ ws_pc' = "closed"
                /\ persisted' = persisted
                /\ ws_delete' = ws_delete]_vars
    /\ (~connected \/ ws_pc = "cleanup") ~> (ws_pc = "closed")

\* C11: the client went away after a message was processed and persisted; the
\* session is closed and its delete succeeded
C11_Witness ==
    /\ ws_pc = "closed"
    /\ ~connected
    /\ ws_in = "disconnect"
    /\ ws_n >= 1
    /\ chat_context # <<>>
    /\ ws_delete = <<TRUE>>
    /\ ~persisted.present

(***************************************************************************)
(* C12: for a SEND_MESSAGE for which the retrieving status was emitted     *)
(* while the index is non-empty, the events are, in this order, the        *)
(* classifying status, the retrieving status and a response whose action   *)
(* is "search", the intent that chose the statuses.                        *)
(***************************************************************************)
C12_SearchStatusThenSearchResponse ==
    [][(/\ ws_pc \in {"fallback", "analysis", "answering"}
        /\ ws_intent = "search"
        /\ data # <<>>
        /\ events[Len(events)].code = "STATUS_RAG_PROCESSING"
        /\ Len(events') = Len(events) + 1
        /\ events'[Len(events')].code = "RESPONSE_MESSAGE")
       => /\ events[Len(events) - 1].code = "STATUS_GROK_PROCESSING"
          /\ events'[Len(events')].message = "search"
          /\ ws_result'.action = ws_intent]_vars

(***************************************************************************)
(* C13: CONNECTION_ESTABLISHED and then REQUEST_CHAT_CONTEXT are the first *)
(* two events and are sent before any client message is read;              *)
(* CHAT_CONTEXT_RECEIVED is sent only as the third event, only after a     *)
(* context reply carrying a list was read by the handshake, with the       *)
(* number of its turns, and only once that list is persisted.              *)
(***************************************************************************)
C13_GreetingThenContext ==
    /\ [](/\ Len(events) >= 1 => events[1].code = "CONNECTION_ESTABLISHED"
          /\ Len(events) >= 2 => events[2].code = "REQUEST_CHAT_CONTEXT"
          /\ (ws_hs # NoKind \/ ws_n > 0)
             => /\ Len(events) >= 2
                /\ ws_pc \notin {"accepted", "establishing", "requesting"}
          /\ \A i \in DOMAIN events :
                events[i].code = "CHAT_CONTEXT_RECEIVED"
                => /\ i = 3
                   /\ ws_hs = "ctx_list"
                   /\ (ws_delete = <<>> => persisted.present))
    /\ [][(/\ Len(events') = Len(events) + 1
           /\ events'[Len(events')].code = "CHAT_CONTEXT_RECEIVED")
          => /\ persisted' = [present |-> TRUE, v |-> chat_context]
             /\ chat_context \in {ClientContext(n) : n \in CtxLens}
             /\ events'[Len(events')].n = Len(chat_context)]_vars

\* C13: a context reply of 19 turns was stored and acknowledged
C13_Witness ==
    /\ ws_pc = "ready"
    /\ Len(events) = 3
    /\ events[3].code = "CHAT_CONTEXT_RECEIVED"
    /\ events[3].n = ContextLimit - 1
    /\ persisted.present
    /\ Len(persisted.v) = ContextLimit - 1

(***************************************************************************)
(* C14: when no context reply arrived within the window the session goes   *)
(* on with an empty context, and a context reply read afterwards changes   *)
(* neither the session context nor the persisted context and causes no     *)
(* server event.                                                           *)
(***************************************************************************)
C14_LateContextIgnored ==
    [][/\ (ws_pc = "handshake" /\ ws_hs' = "timeout")
          => (WsState' = "READY" /\ chat_context' = <<>>)
       /\ (/\ ws_hs = "timeout"
           /\ WsState = "READY"
           /\ ws_n' = ws_n + 1
           /\ ws_in' = "ctx_list")
          => /\ chat_context' = chat_context
             /\ persisted' = persisted
             /\ events' = events]_vars

(***************************************************************************)
(* C15: a failed write of the session's context to the cache (during the   *)
(* handshake or after a response), the client being connected, is a no-op: *)
(* it emits no error event and does not end the session.                   *)
(***************************************************************************)
C15_CacheFailureRecovered ==
    [][(/\ connected
        /\ \/ ws_pc = "ctx_saving" /\ ws_pc' # ws_pc /\ ~persisted'.present
           \/ ws_pc = "persisting" /\ ws_raised' = "persist")
       => /\ events' = events \/ events'[Len(events')].code # "ERROR"
          /\ WsState' = "READY"]_vars

(***************************************************************************)
(* C16: get(force_refresh=True) performs no cache read and calls           *)
(* _fetch_from_api exactly once, whatever the cache holds: before the      *)
(* fetch returns the count is 0, from then on it is 1.                     *)
(***************************************************************************)
C16_ForceFetchesOnce ==
    \A f \in Fetchers :
        f_force[f]
        => /\ f_pc[f] \in {"fetch", "save", "done", "raised"}
           /\ f_read[f] = NoRead
           /\ f_pc[f] = "fetch" => f_fetches[f] = 0
           /\ f_pc[f] \in {"save", "done", "raised"} => f_fetches[f] = 1

\* a forced get() has fetched while the cache held an entry for its section
C16_Witness ==
    \E f \in Fetchers :
        /\ f_force[f] /\ f_pc[f] = "save" /\ f_fetches[f] = 1
        /\ cache[CacheKey(f_sec[f])] # Absent
        /\ Validate(f_sec[f], cache[CacheKey(f_sec[f])]) # NoneModel

(***************************************************************************)
(* C17: a _fetch_from_api that returned is followed by exactly one         *)
(* set_json call, with the section's cache_key, its cache_ttl and the dump *)
(* of the fetched model, and get() returns the fetched model.              *)
(***************************************************************************)
C17_FetchThenOneWrite ==
    \A f \in Fetchers :
        /\ f_writes[f] <= 1
        /\ f_pc[f] = "save"
           => /\ f_fetches[f] = 1 /\ f_writes[f] = 0 /\ f_fresh[f] # NoneModel
              /\ ENABLED FSave(f, TRUE)
        /\ f_pc[f] = "raised" => (f_writes[f] = 0 /\ f_fresh[f] = NoneModel)
        /\ (f_pc[f] = "done" /\ f_fetches[f] = 1)
           => /\ f_writes[f] = 1
              /\ f_fresh[f] # NoneModel
              /\ f_write[f].key = CacheKey(f_sec[f])
              /\ f_write[f].expire = CacheTTL(f_sec[f])
              /\ f_write[f].value = ModelDump(f_fresh[f])
              /\ f_result[f] = f_fresh[f]
              /\ f_write[f].ok /\ cache[f_write[f].key] # Absent
                 => cache[f_write[f].key].dict_of = f_sec[f]

\* a get() has fetched, written the entry and returned; the store holds
\* what it wrote
C17_Witness ==
    \E f \in Fetchers :
        /\ f_pc[f] = "done" /\ f_fetches[f] = 1 /\ f_writes[f] = 1
        /\ f_write[f].ok
        /\ f_sec[f] = "list"
        /\ cache[CacheKey("list")] = ModelDump(f_result[f])

(***************************************************************************)
(* C18: when set_json raises after a fetch that returned, get() raises     *)
(* nothing and returns the fetched model.                                  *)
(***************************************************************************)
C18_WriteFailureSwallowed ==
    \A f \in Fetchers :
        (f_writes[f] = 1 /\ ~f_write[f].ok)
        => /\ f_pc[f] = "done"
           /\ f_fresh[f] # NoneModel
           /\ f_result[f] = f_fresh[f]

\* a get() whose write raised has returned a model the store does not hold
C18_Witness ==
    \E f \in Fetchers :
        /\ f_pc[f] = "done" /\ f_writes[f] = 1 /\ ~f_write[f].ok
        /\ f_result[f] # NoneModel
        /\ cache[CacheKey(f_sec[f])] # ModelDump(f_result[f])

(***************************************************************************)
(* C19: a get(force_refresh=False) whose cache read raised goes on as      *)
(* after a miss: it calls _fetch_from_api once, writes the fetched model   *)
(* back and returns it; it raises only when the fetch itself raised.       *)
(***************************************************************************)
C19_ReadFailureIsMiss ==
    \A f \in Fetchers :
        (~f_force[f] /\ f_read[f].done /\ ~f_read[f].ok)
        => /\ f_pc[f] \in {"fetch", "save", "done", "raised"}
           /\ f_pc[f] = "fetch" => f_fetches[f] = 0
           /\ f_pc[f] \in {"save", "done", "raised"} => f_fetches[f] = 1
           /\ f_pc[f] = "done"
              => /\ f_writes[f] = 1
                 /\ f_write[f].value = ModelDump(f_fresh[f])
                 /\ f_result[f] = f_fresh[f]
                 /\ f_result[f] # NoneModel

\* a get(False) whose read raised although the store held a valid entry has
\* fetched, written and returned another payload than the stored one
C19_Witness ==
    \E f \in Fetchers :
        /\ f_pc[f] = "done" /\ ~f_force[f]
        /\ f_read[f].done /\ ~f_read[f].ok
        /\ Validate(f_sec[f], f_read[f].entry) # NoneModel
        /\ f_fetches[f] = 1 /\ f_writes[f] = 1
        /\ f_result[f] # Validate(f_sec[f], f_read[f].entry)

(***************************************************************************)
(* C20: one call of request() hands at most one request to httpx: when the *)
(* httpx call ends with a transport error or a non-success status the      *)
(* request is not sent again, and the caller gets one HTTPException with   *)
(* status 400 in either case.                                              *)
(***************************************************************************)
C20_OneSendOneError ==
    \A c \in Callers :
        /\ gw_sends[c] <= 1
        /\ (gw_pc[c] = "sending" \/ gw_upstream[c] # "none") <=> gw_sends[c] = 1
        /\ gw_pc[c] = "done" <=> gw_upstream[c] # "none"
        /\ gw_upstream[c] = "ok" => gw_result[c].kind = "response"
        /\ gw_upstream[c] \in {"status_error", "transport_error"}
           => /\ gw_result[c].kind = "HTTPException"
              /\ gw_result[c].status = 400

\* two calls have ended, one on a status error and one on a transport
\* error; each sent one request and raised the same kind of exception
C20_Witness ==
    \E c, d \in Callers :
        /\ gw_pc[c] = "done" /\ gw_pc[d] = "done"
        /\ gw_upstream[c] = "status_error" /\ gw_upstream[d] = "transport_error"
        /\ gw_sends[c] = 1 /\ gw_sends[d] = 1
        /\ gw_result[c].kind = gw_result[d].kind
        /\ gw_result[c].status = gw_result[d].status

(***************************************************************************)
(* C21: the error request() raises for a failed httpx call, whether the    *)
(* call ended with a transport error or with a non-success status, carries *)
(* the url the request was sent to.                                        *)
(***************************************************************************)
C21_ErrorCarriesTarget ==
    \A c \in Callers :
        gw_upstream[c] \in {"status_error", "transport_error"}
        => /\ gw_result[c].kind = "HTTPException"
           /\ gw_result[c].has_url

(***************************************************************************)
(* C22: at most one caller at a time is inside the "async with self._lock" *)
(* section of _wait_for_rate_limit, and the caller that sleeps there holds *)
(* the lock; every caller that entered _wait_for_rate_limit eventually     *)
(* leaves it and goes on to send.                                          *)
(***************************************************************************)
C22_ExclusiveAndLive ==
    /\ [](\A c, d \in Callers :
            /\ (gw_pc[c] = "sleeping" /\ gw_pc[d] = "sleeping") => c = d
            /\ gw_pc[c] = "sleeping" => lock_holder = c
            /\ lock_holder = c => gw_pc[c] \in {"sleeping", "wait_lock"}
            /\ gw_pc[c] = "wait_lock"
               => (lock_holder # NoCaller
                   /\ (lock_holder = c
                       \/ \E i \in 1..Len(lock_waiters) : lock_waiters[i] = c)))
    /\ \A c \in Callers :
          (gw_pc[c] \in {"wait_lock", "sleeping"})
              ~> (gw_pc[c] \in {"get_client", "sending", "done"})

\* every caller has passed the section, each one RateLimit after the one
\* before it: all but the first had to wait for the lock and sleep in it
C22_Witness ==
    /\ Len(gw_stamps) = Cardinality(Callers)
    /\ \A c \in Callers : gw_pc[c] \in {"get_client", "sending", "done"}
    /\ \A i \in 1..Cardinality(Callers) : gw_stamps[i] = StartTime + (i - 1) * RateLimit

\* the pair a search computed on is the outcome of one completed ingest:
\* one row per record, each the encoding of that record's text
SawCompleteIngest(s) ==
    /\ s_pc[s] = "computed"
    /\ s_seen[s].vectors.present
    /\ s_seen[s].records # <<>>
    /\ s_seen[s].vectors.rows
         = Encode([i \in 1..Len(s_seen[s].records) |-> ToText(s_seen[s].records[i])])

\* the similarity of stored record i to the query of search s
ScoreOf(s, i) == Similarity(EncodeQuery(s_q[s]), s_seen[s].vectors.rows[i])

\* the position in the record list of the j-th returned entry
IndexOf(s, j) ==
    CHOOSE i \in 1..Len(s_seen[s].records) : s_seen[s].records[i] = s_result[s].items[j].data

(***************************************************************************)
(* C23: a search on the n records and vectors of a completed ingest        *)
(* returns min(k, n) entries: distinct stored records, each with its own   *)
(* similarity to the query, in non-increasing score order, and no record   *)
(* left out scores higher than a returned one.                             *)
(***************************************************************************)
C23_TopKByScore ==
    \A s \in Searches :
        SawCompleteIngest(s)
        => LET items == s_result[s].items
               n == Len(s_seen[s].records)
               returned == {IndexOf(s, j) : j \in 1..Len(items)}
           IN  /\ s_result[s].kind = "list"
               /\ Len(items) = (IF s_k[s] < n THEN s_k[s] ELSE n)
               /\ \A j \in 1..Len(items) :
                     /\ \E i \in 1..n : items[j].data = s_seen[s].records[i]
                     /\ items[j].score = ScoreOf(s, IndexOf(s, j))
               /\ Cardinality(returned) = Len(items)
               /\ \A j \in 1..(Len(items) - 1) : items[j].score >= items[j + 1].score
               /\ \A i \in (1..n) \ returned, j \in 1..Len(items) :
                     ScoreOf(s, i) <= items[j].score

\* a search for one entry among three records, two of which score lower
\* than the one returned
C23_Witness ==
    \E s \in Searches :
        /\ SawCompleteIngest(s)
        /\ Len(s_seen[s].records) = 3 /\ s_k[s] = 1
        /\ Len(s_result[s].items) = 1
        /\ s_result[s].items[1].score = 1
        /\ \E i \in 1..3 : ScoreOf(s, i) = 0

(***************************************************************************)
(* C24: among returned records of equal similarity the one with the        *)
(* smaller index in the record list comes first, and a record left out     *)
(* that ties with a returned one has a larger index than it.               *)
(***************************************************************************)
C24_TiesInRecordOrder ==
    \A s \in Searches :
        SawCompleteIngest(s)
        => LET items == s_result[s].items
               n == Len(s_seen[s].records)
               returned == {IndexOf(s, j) : j \in 1..Len(items)}
           IN  /\ \A j, l \in 1..Len(items) :
                     (j < l /\ items[j].score = items[l].score)
                     => IndexOf(s, j) < IndexOf(s, l)
               /\ \A i \in (1..n) \ returned, j \in 1..Len(items) :
                     ScoreOf(s, i) = items[j].score => IndexOf(s, j) < i

(***************************************************************************)
(* C25: load_from_stoloto_data of a batch that yields no record completes  *)
(* and leaves no record and no vectors; a search called on that index      *)
(* returns the empty list at once, without encoding the query.             *)
(***************************************************************************)
C25_EmptyIngestEmptySearch ==
    /\ [][\A r \in Refreshes :
            (r_pc[r] = "idle" /\ r_ingest'[r] /\ Extract(r_bundle'[r]) = <<>>)
            => /\ r_pc'[r] = "done"
               /\ data' = <<>>
               /\ embeddings' = NoEmbeddings]_vars
    /\ [][\A s \in Searches :
            (/\ s_pc[s] = "idle" /\ s_pc'[s] # "idle"
             /\ data = <<>> /\ embeddings = NoEmbeddings)
            => /\ s_pc'[s] = "done"
               /\ s_result'[s] = [kind |-> "list", items |-> <<>>]
               /\ s_seen'[s] = NoSeen]_vars

\* a search has returned the empty list on the index an empty ingest left
C25_Witness ==
    \E s \in Searches, r \in Refreshes :
        /\ r_pc[r] = "done" /\ r_ingest[r] /\ Extract(r_bundle[r]) = <<>>
        /\ data = <<>> /\ embeddings = NoEmbeddings
        /\ s_pc[s] = "done" /\ s_k[s] = TopK /\ s_q[s] = NQueries
        /\ s_result[s] = [kind |-> "list", items |-> <<>>]

(***************************************************************************)
(* C26: when an ingest has ended, whether it installed vectors, had        *)
(* nothing to install or failed, the index holds no record and no vector   *)
(* of an earlier ingest: its records are those of this batch and its       *)
(* vectors, if it has any, are the vectors of this batch.                  *)
(***************************************************************************)
C26_ReingestReplaces ==
    \A r \in Refreshes :
        (r_pc[r] = "done" /\ r_ingest[r])
        => /\ data = Extract(r_bundle[r])
           /\ embeddings.present => embeddings = Installed(r_bundle[r]).vectors

(***************************************************************************)
(* C27: when two concurrent ingests have both ended, the index holds       *)
(* exactly the records and the vectors of one of them, the one that ran    *)
(* last.                                                                   *)
(***************************************************************************)
C27_LastIngestWins ==
    (\A r \in Refreshes : r_pc[r] = "done" /\ r_ingest[r])
    => \E r \in Refreshes :
          /\ data = Installed(r_bundle[r]).records
          /\ embeddings = Installed(r_bundle[r]).vectors

\* the text holds the letters s, e, a, r, c, h in a row, each in either case
HasSearchAnyCase(text) ==
    \E i \in 0..(Len(text) - 6) :
        /\ text[i + 1] \in {"s", "S"} /\ text[i + 2] \in {"e", "E"}
        /\ text[i + 3] \in {"a", "A"} /\ text[i + 4] \in {"r", "R"}
        /\ text[i + 5] \in {"c", "C"} /\ text[i + 6] \in {"h", "H"}

(***************************************************************************)
(* C28: _detect_intent returns "search" exactly when the classifier's      *)
(* reply holds "search" somewhere, in any letter case, and "answer" for    *)
(* every other reply, the empty one included.                              *)
(***************************************************************************)
C28_IntentFromSubstring ==
    ag_intent # NoIntent
    => /\ ag_intent \in {"search", "answer"}
       /\ ag_intent = "search" <=> HasSearchAnyCase(ag_raw)

\* an upper-case reply inside other text was classified as search
C28_Witness ==
    /\ ag_intent = "search"
    /\ ag_raw = <<" ", "S", "e", "a", "r", "c", "h", " ">>
    /\ ag_pc = "keywords"

(***************************************************************************)
(* C29: process_query with the search intent and no search result returns  *)
(* action "search" and, as content, the text of one conversational         *)
(* completion whose user message carries the no-results sentence; the text *)
(* is not parsed, whatever it is.                                          *)
(***************************************************************************)
C29_NoResultsPlainText ==
    (ag_pc = "done" /\ ag_intent = "search" /\ ag_hits = <<>>)
    => /\ ag_result.action = "search"
       /\ ag_result.content = StrContent(ag_reply)
       /\ ag_reply \in ReplyTexts
       /\ ag_calls = <<Completion("intent", FALSE), Completion("keywords", FALSE),
                       Completion("conversation", TRUE)>>

\* the completion's text was valid JSON and was still returned as a string
C29_Witness ==
    /\ ag_pc = "done" /\ ag_intent = "search" /\ ag_hits = <<>>
    /\ JsonValid(ag_reply)
    /\ ag_result.content.kind = "str"
    /\ ag_result.content.value = ag_reply

(***************************************************************************)
(* C30: process_query with the search intent and a non-empty search result *)
(* returns action "search"; its content is the parsed value when           *)
(* json.loads of the synthesis text succeeds and the text itself when it   *)
(* does not, and the failed parse does not make process_query raise.       *)
(***************************************************************************)
C30_ParsedOrRaw ==
    /\ (ag_pc = "done" /\ ag_intent = "search" /\ ag_hits # <<>>)
       => /\ ag_result.action = "search"
          /\ ag_calls[Len(ag_calls)] = Completion("analysis", FALSE)
          /\ JsonValid(ag_reply)
             => ag_result.content = [kind |-> "parsed", value |-> JsonLoads(ag_reply)]
          /\ ~JsonValid(ag_reply) => ag_result.content = StrContent(ag_reply)
    /\ ag_pc = "raised" => ag_reply = NoText
    /\ ag_reply # NoText => ag_pc = "done"

\* a synthesis text that is not JSON was returned as it is
C30_Witness ==
    /\ ag_pc = "done" /\ ag_intent = "search" /\ Len(ag_hits) = TopK
    /\ ag_reply = "{\"lotteries\": ["
    /\ ag_result = [action |-> "search", content |-> StrContent(ag_reply)]

(***************************************************************************)
(* C38: when _fetch_from_api raises inside get(), get() raises: it makes   *)
(* no set_json call, returns nothing, and the step leaves the whole store, *)
(* the entry under the section's cache_key included, as it was.            *)
(***************************************************************************)
C38_FetchFailureLeavesCache ==
    /\ [](\A f \in Fetchers :
            f_pc[f] = "raised"
            => /\ f_fetches[f] = 1
               /\ f_writes[f] = 0 /\ f_write[f] = NoWrite
               /\ f_result[f] = NoneModel)
    /\ [][\A f \in Fetchers :
            (/\ f_pc[f] = "fetch"
             /\ f_fetches'[f] = f_fetches[f] + 1
             /\ f_fresh'[f] = NoneModel)
            => /\ f_pc'[f] = "raised"
               /\ cache' = cache
               /\ f_writes'[f] = 0]_vars

\* a get() has raised while the store holds an entry under its key
C38_Witness ==
    \E f \in Fetchers :
        /\ f_pc[f] = "raised" /\ f_fetches[f] = 1 /\ f_writes[f] = 0
        /\ f_sec[f] = "tabs"
        /\ cache[CacheKey("tabs")] = ModelDump(Model("tabs", NPayloads))

(***************************************************************************)
(* C33: the gateway holds at most one httpx client; close() closes the one *)
(* it holds and, when aclose() returns, forgets it; a close() that finds    *)
(* none (a second close, a close before any request) can be called and     *)
(* changes nothing.                                                        *)
(***************************************************************************)
C33_CloseIdempotent ==
    /\ [](/\ gw_created \in {0, 1}
          /\ gw_client = "open" <=> gw_created = 1
          /\ gw_close = "aclose" => gw_client = "closed"
          /\ gw_close = "idle" => ENABLED GwCloseStart)
    /\ [][/\ (gw_close = "idle" /\ gw_close' = "aclose")
             => /\ gw_client = "open" /\ gw_client' = "closed"
                /\ gw_created' = 0
                /\ gw_pc' = gw_pc /\ gw_result' = gw_result
          /\ (gw_close = "aclose" /\ gw_close' = "idle")
             => /\ gw_client' \in {"none", "closed"}
                /\ gw_created' = 0
                /\ gw_pc' = gw_pc /\ gw_result' = gw_result
          /\ (gw_client = "closed" /\ gw_close = "idle" /\ gw_client' # "closed")
             => /\ gw_client' = "none"
                /\ gw_created' = 0
                /\ gw_pc' = gw_pc /\ gw_result' = gw_result
          /\ (gw_client = "none" /\ gw_client' = "none")
             => gw_created' = gw_created]_vars

\* a client was created for a request and released by a close() that has
\* returned, while another caller was still waiting for its response;
\* close() can be called again
C33_Witness ==
    /\ gw_client = "none" /\ gw_created = 0 /\ gw_close = "idle"
    /\ \E c \in Callers : gw_pc[c] = "done" /\ gw_sends[c] = 1
    /\ \E c \in Callers : gw_pc[c] = "sending"
    /\ ENABLED GwCloseStart

(***************************************************************************)
(* C39: when a section's get() raises inside _load_rag_data, the refresh   *)
(* returns normally without calling load_from_stoloto_data, and the step   *)
(* leaves the index's records and vectors as they were.                    *)
(***************************************************************************)
C39_FailedRefreshLeavesIndex ==
    /\ [](\A r \in Refreshes :
            /\ r_pc[r] \in {"idle", "fetch", "wait_lock", "encoding", "done"}
            /\ r_failed[r] # {}
               => /\ r_pc[r] = "done"
                  /\ ~r_ingest[r]
                  /\ Cardinality(r_failed[r]) = 1
                  /\ rag_holder # r)
    /\ [][\A r \in Refreshes :
            (r_failed[r] = {} /\ r_failed'[r] # {})
            => /\ data' = data
               /\ embeddings' = embeddings
               /\ rag_holder' = rag_holder /\ rag_waiters' = rag_waiters
               /\ r_pc'[r] = "done"]_vars

\* a refresh whose last section fetch raised has returned; the index still
\* holds what another refresh had installed
C39_Witness ==
    \E r \in Refreshes :
        /\ r_pc[r] = "done" /\ r_failed[r] = {"list"} /\ ~r_ingest[r]
        /\ data # <<>> /\ embeddings.present
        /\ Len(embeddings.rows) = Len(data)

(***************************************************************************)
(* C31: a process_query that returned with intent "answer" made, after the *)
(* classification, one conversational completion on the query, extracted   *)
(* no keywords, did not search the index, and returned action "answer"     *)
(* with the completion's text; one that returned with intent "search"      *)
(* extracted keywords, then searched the index once with top_k = 3, then   *)
(* made exactly one more completion.                                       *)
(***************************************************************************)
C31_QuerySequence ==
    /\ (ag_pc = "done" /\ ag_intent = "answer")
       => /\ ag_calls = <<Completion("intent", FALSE), Completion("conversation", FALSE)>>
          /\ UserContent(ag_calls[2]) = "query"
          /\ ag_searches = <<>> /\ ag_hits = <<>>
          /\ ag_result = [action |-> "answer", content |-> StrContent(ag_reply)]
    /\ (ag_pc = "done" /\ ag_intent = "search")
       => /\ Len(ag_calls) = 3
          /\ ag_calls[1] = Completion("intent", FALSE)
          /\ ag_calls[2] = Completion("keywords", FALSE)
          /\ ag_calls[3].prompt \in {"analysis", "conversation"}
          /\ ag_searches = <<[top_k |-> TopK, after |-> 2]>>
          /\ ag_result.action = "search"
    /\ ag_pc \in {"keywords", "searching", "search_encoding", "fallback", "analysis"}
       => ag_intent = "search"
    /\ ag_pc = "answering" => (ag_intent = "answer" /\ Len(ag_calls) = 1)
    /\ ag_searches # <<>>
       => ag_pc \in {"search_encoding", "fallback", "analysis", "done", "raised"}

\* an answer was returned while the index held records it did not search
C31_Witness ==
    /\ ag_pc = "done" /\ ag_intent = "answer"
    /\ ag_result.action = "answer" /\ ag_result.content.kind = "str"
    /\ Len(data) = TopK /\ embeddings.present
    /\ ag_searches = <<>>

(***************************************************************************)
(* C32: process_query calls _load_rag_data exactly when the index has no   *)
(* records or force_refresh_rag is set; it decides once, before the intent *)
(* is classified, and classifies only after _load_rag_data has returned.   *)
(***************************************************************************)
C32_RefreshWhenEmptyOrForced ==
    /\ [](/\ ag_refreshes \in {0, 1}
          /\ ag_pc # "idle"
             => ag_refreshes = (IF ag_was_empty \/ ag_force THEN 1 ELSE 0)
          /\ ag_pc \in {"refreshing", "encoding"}
             => (ag_calls = <<>> /\ ag_intent = NoIntent /\ ag_refreshes = 1)
          /\ ag_pc = "idle" => ag_refreshes = 0)
    /\ [][/\ ag_refreshes' > ag_refreshes => (ag_pc = "idle" /\ ag_pc' = "refreshing")
          /\ (ag_intent = NoIntent /\ ag_intent' # NoIntent)
             => (ag_pc = "intent" /\ ag_refreshes' = ag_refreshes)
          /\ (ag_pc = "refreshing" /\ ag_pc' # ag_pc) => ag_pc' \in {"encoding", "intent"}
          /\ (ag_pc = "encoding" /\ ag_pc' # ag_pc) => ag_pc' = "intent"]_vars

\* a forced refresh of an index that held records has finished and the
\* intent was classified after it
C32_Witness ==
    /\ ag_force /\ ~ag_was_empty /\ ag_refreshes = 1
    /\ ag_pc = "keywords" /\ ag_intent = "search"
    /\ Len(ag_calls) = 1

(***************************************************************************)
(* C34: only a SEND_MESSAGE whose text is not blank enters PROCESSING; one *)
(* whose text is empty or whitespace only gets exactly one ERROR event,    *)
(* starts no classification and no process_query, leaves the rolling and   *)
(* the persisted context as they were, and the session stays READY: while  *)
(* the error is sent and, once the send has returned, at the next          *)
(* receive(), unless the client has gone meanwhile.                        *)
(***************************************************************************)
C34_BlankMessageRejected ==
    [][/\ (WsState = "READY" /\ WsState' = "PROCESSING")
          => (ws_pc = "ready" /\ ws_n' = ws_n + 1 /\ ws_in' = "send_ok")
       /\ (/\ WsState = "READY"
           /\ ws_n' = ws_n + 1
           /\ ws_in' = "send_blank")
          => /\ ws_pc' = "rejecting"
             /\ WsState' = "READY"
             /\ Len(events') = Len(events) + 1
             /\ SubSeq(events', 1, Len(events)) = events
             /\ events'[Len(events')] = ErrorEvent("send_blank")
             /\ ws_intent' = ws_intent
             /\ ws_result' = ws_result
             /\ chat_context' = chat_context
             /\ persisted' = persisted
       /\ (ws_pc = "rejecting" /\ ws_in = "send_blank")
          => /\ events' = events
             /\ ws_intent' = ws_intent
             /\ ws_result' = ws_result
             /\ chat_context' = chat_context
             /\ persisted' = persisted
             /\ ws_pc' \in {"rejecting", IF connected THEN "ready" ELSE "cleanup"}]_vars

\* C34: a blank message was read after a message had been processed: the
\* session is READY, its last event is the blank-text error, the contexts
\* are those the processed message left
C34_Witness ==
    /\ ws_pc = "ready"
    /\ ws_in = "send_blank"
    /\ events[Len(events)] = ErrorEvent("send_blank")
    /\ \E i \in DOMAIN events : events[i].code = "RESPONSE_MESSAGE"
    /\ chat_context # <<>>
    /\ persisted.present
    /\ persisted.v = chat_context

\* the events that end the processing of a message: the RESPONSE_MESSAGE of
\* ai.py:325 and the ERROR of the processing block's handler (ai.py:342-349)
IsTerminal(e) ==
    \/ e.code = "RESPONSE_MESSAGE"
    \/ e.code = "ERROR" /\ e.error # ""

\* the terminal events sent for the message whose STATUS_GROK_PROCESSING is
\* events[i] (ai.py:281-349): those before the next message's first status
TerminalsAfter(i) ==
    {j \in DOMAIN events :
        /\ j > i
        /\ IsTerminal(events[j])
        /\ \A k \in (i + 1)..j : events[k].code # "STATUS_GROK_PROCESSING"}

(***************************************************************************)
(* C36: every accepted SEND_MESSAGE gets exactly one terminal event, a     *)
(* RESPONSE_MESSAGE or an ERROR: never both, and not none once the handler *)
(* is back at its receive().                                               *)
(***************************************************************************)
C36_OneTerminalEvent ==
    \A i \in DOMAIN events :
        events[i].code = "STATUS_GROK_PROCESSING"
        => /\ Cardinality(TerminalsAfter(i)) <= 1
           /\ (WsState = "READY" => Cardinality(TerminalsAfter(i)) = 1)

\* ai.py:336, 342-349: the set_json of the last message returned or raised
ContextUpdateAttempted ==
    \/ persisted = [present |-> TRUE, v |-> chat_context]
    \/ ws_raised = "persist"

\* the handler is at a receive() of its main loop (ai.py:238) only when every
\* accepted message has its terminal event and, for the last one, when a
\* response was sent, the set_json of its context was attempted
ProcessedBeforeRead ==
    WsState = "READY" =>
        \A i \in DOMAIN events :
            events[i].code = "STATUS_GROK_PROCESSING" =>
                \E j \in TerminalsAfter(i) :
                    (/\ events[j].code = "RESPONSE_MESSAGE"
                     /\ \A k \in DOMAIN events :
                            k > i => events[k].code # "STATUS_GROK_PROCESSING")
                    => ContextUpdateAttempted

(***************************************************************************)
(* C37: within a session messages are processed one at a time. A message   *)
(* is read only in READY, where every accepted message has its terminal    *)
(* event and the last one's context update was attempted; the read does    *)
(* not change the context, and an accepted message is processed with the   *)
(* context the previous one left; responses appear in the order of their   *)
(* messages.                                                               *)
(***************************************************************************)
C37_OneAtATime ==
    [][/\ ws_n' # ws_n =>
             /\ ws_pc = "ready"
             /\ WsState = "READY"
             /\ ProcessedBeforeRead
             /\ chat_context' = chat_context
             /\ WsState' = "PROCESSING" => ws_before' = chat_context
       /\ ProcessedBeforeRead'
       /\ WsState' = "PROCESSING" =>
             \/ chat_context' = ws_before'
             \/ /\ \/ ws_pc' = "persisting"
                   \/ ws_pc' = "failing" /\ ws_raised' = "persist"
                /\ chat_context' = Truncate(ws_before' \o <<UserTurn(ws_n'),
                                                             AssistantTurn(ws_result')>>)
       /\ (/\ Len(events') = Len(events) + 1
           /\ events'[Len(events')].code = "RESPONSE_MESSAGE")
          => \A i \in DOMAIN events :
                events[i].code = "RESPONSE_MESSAGE"
                => events[i].n < events'[Len(events')].n]_vars

\* C37: two messages were processed in turn after an empty handshake: the
\* context holds the turns of the first and then those of the second, the
\* responses are in that order and the handler is at its receive() again
C37_Witness ==
    /\ ws_pc = "ready"
    /\ ws_hs = "timeout"
    /\ Len(chat_context) = 4
    /\ chat_context[1] = UserTurn(1)
    /\ chat_context[3] = UserTurn(2)
    /\ persisted = [present |-> TRUE, v |-> chat_context]
    /\ \E i, j \in DOMAIN events :
          /\ i < j
          /\ events[i] = Event("RESPONSE_MESSAGE", events[i].message, "", 1)
          /\ events[j] = Event("RESPONSE_MESSAGE", events[j].message, "", 2)

(***************************************************************************)
(* C35: when process_user_message has returned, the list its caller holds  *)
(* (the one passed as chat_context to the next call) has at most 20        *)
(* entries and is the value that was persisted.                            *)
(***************************************************************************)
C35_CallerListTruncated ==
    cs_pc = "returned" =>
        /\ Len(cs_context) <= ContextLimit
        /\ cs_persisted = [present |-> TRUE, v |-> cs_context]

(***************************************************************************)
(* C40: the first message read in the handshake window is consumed by the  *)
(* handshake: when it is a text other than a context reply (a              *)
(* SEND_MESSAGE, another code, a text that is not JSON, a JSON value that  *)
(* is not an object) it is dropped: no event is sent for it, nothing is    *)
(* classified or persisted, and the session goes on in READY with an empty *)
(* context.                                                                *)
(***************************************************************************)
C40_FirstMessageConsumed ==
    [][(/\ ws_pc = "handshake"
        /\ ws_pc' # "handshake"
        /\ ws_hs' \in {"send_ok", "unknown_code", "bad_json", "non_object"})
       => /\ WsState' = "READY"
          /\ chat_context' = <<>>
          /\ events' = events
          /\ persisted' = persisted
          /\ ~persisted'.present
          /\ ws_n' = ws_n
          /\ ws_intent' = ws_intent
          /\ ws_result' = ws_result]_vars

============================================================================
